---- MODULE Spec2Model ----
(***************************************************************************)
(* Model of the link-layer I/O library in src/src/arp: the raw-socket      *)
(* channel (channel.rs), the Ethernet packet views (ether.rs), the ARP     *)
(* codec (arp.rs) and the construction of an ARP request (other.rs).       *)
(*                                                                         *)
(* The specifications share the variables:                                 *)
(*   Spec        channel() and the drops of the halves, over several       *)
(*               channel slots and a small descriptor table;               *)
(*   SpecIO      one channel with send_to / next() at syscall granularity, *)
(*               each half on its own thread, drops included;              *)
(*   SpecCalls   one channel that stays open, every kind of dst, and a     *)
(*               transmit or read that returns in the end;                 *)
(*   SpecEth     the Ethernet view constructors over caller buffers;       *)
(*   SpecPkt     the operations of an Ethernet view;                       *)
(*   SpecArpPure the ARP field layout and the open enumerations;           *)
(*   SpecArp     the operations of an ARP Packet on a buffer;              *)
(*   SpecFrame   the construction of an ARP request frame and its parse.   *)
(***************************************************************************)
EXTENDS Integers, Sequences, FiniteSets, TLC

(* ------------------------------ bounds -------------------------------- *)
\* channel slots of the caller (channels that may be open at the same time)
MaxChan == 2
\* descriptors the process may hold at the same time
MaxFd == 2

\* interruptions (EINTR) of one transmit or read that are followed
MaxRetry == 2
\* datagrams the socket queues for the receiver
MaxBacklog == 2
\* length of the buffers handed to the Ethernet constructors
MaxBufLen == 16

Chans == 1..MaxChan
Fds == 1..MaxFd
Halves == {"tx", "rx"}

Min(S) == CHOOSE x \in S : \A y \in S : x <= y

(* --------------------------- program constants ------------------------ *)
eth_p_all == 3
SOCK_RAW == "SOCK_RAW"
SOCK_DGRAM == "SOCK_DGRAM"
EtherTypes_Arp == 2054

\* u16::to_be on a little-endian target: the two bytes swapped
to_be(x) == (x % 256) * 256 + (x \div 256)

(* ------------------------------ inputs -------------------------------- *)
Layer2 == [tag |-> "Layer2", ethertype |-> 0]
Layer3(e) == [tag |-> "Layer3", ethertype |-> e]
ChannelTypes == {Layer2, Layer3(EtherTypes_Arp)}

\* Option values: an absent MAC, duration, timespec or interface
NoMac == <<>>
NoDuration == [some |-> FALSE, ms |-> 0]
SomeDuration(ms) == [some |-> TRUE, ms |-> ms]
NoTimespec == [some |-> FALSE, tv_sec |-> 0, tv_nsec |-> 0]
\* interface indexes the host knows; any other index names no interface
ExistingIndexes == {2}
Mac1 == <<40, 239, 249, 95, 142, 43>>
NetworkInterfaces == {[index |-> 2, mac |-> Mac1], [index |-> 9, mac |-> NoMac]}

\* Config::default() with scratch buffers of 4 bytes instead of 4096
BaseConfig ==
  [write_buffer_size |-> 4, read_buffer_size |-> 4,
   read_timeout |-> NoDuration, write_timeout |-> NoDuration, channel_type |-> Layer2]

\* the calls made where the channel type and the interface are what
\* varies: each channel type on an existing interface, and an index that
\* names no interface
LifecycleCalls ==
  {[network_interface |-> n, config |-> [BaseConfig EXCEPT !.channel_type = t]] :
     n \in {ni \in NetworkInterfaces : ni.index \in ExistingIndexes}, t \in ChannelTypes}
  \cup {[network_interface |-> n, config |-> BaseConfig] :
     n \in {ni \in NetworkInterfaces : ni.index \notin ExistingIndexes}}

\* configurations used where the I/O is what varies: a read buffer shorter
\* than an Ethernet header and one that holds a header, with and without timeouts
ReadBufferSizes == {8, 15}
Timeouts == {NoDuration, SomeDuration(10)}
IOConfigs ==
  {[BaseConfig EXCEPT !.read_buffer_size = n, !.read_timeout = r, !.write_timeout = w] :
     n \in ReadBufferSizes, r \in Timeouts, w \in Timeouts}

\* a frame of len bytes, every byte equal to tag
Frame(len, tag) == [i \in 1..len |-> tag]
\* what the interface delivers: a minimal frame and a longer one
Datagrams == {Frame(14, 1), Frame(16, 2)}
\* what the caller sends
Packets == {Frame(14, 3), Frame(15, 4)}
Zeros(n) == [i \in 1..n |-> 0]

\* the failure the host injects into one channel() call: the failing step
\* and the errno it sets
Faults ==
  { [step |-> "none", errno |-> ""],
    [step |-> "socket", errno |-> "EMFILE"],
    [step |-> "bind", errno |-> "ENODEV"],
    [step |-> "setsockopt", errno |-> "ENOBUFS"],
    [step |-> "fcntl", errno |-> "EINVAL"] }

VARIABLES
  fdtab,      \* descriptor table of the process: fd -> 0 (free) or the slot whose socket it is
  trace,      \* per slot: the syscalls issued for the slot's latest channel
  opencall,   \* per slot: the arguments of the latest channel() call
  chanres,    \* per slot: what the latest channel() call returned
  sock,       \* per slot: the socket of the latest call (FileDesc.fd, type, protocol, send_addr)
  strong,     \* per slot: strong count of the Arc<FileDesc>
  pc,         \* per slot and half: position of the thread that owns the half
  badClose,   \* a close() was issued on a descriptor that was not the slot's open socket
  badUse,     \* a wait, transmit or read was issued on a descriptor that was not the slot's open socket
  fd_set,     \* per slot and half: does the half's fd_set hold the descriptor
  timeout,    \* per slot and half: Option<timespec>
  read_buffer,\* per slot: the receiver's scratch buffer
  write_buffer,\* per slot: the sender's scratch buffer
  backlog,    \* per slot: datagrams queued on the socket, oldest first
  writable,   \* per slot: the socket has room for a transmit
  call,       \* per slot and half: the call in progress (or the last one)
  res,        \* per slot and half: what the last send_to / next() returned
  sent,       \* per slot: the last transmit the socket accepted
  eth_buffer, \* the byte buffer a caller hands to an Ethernet constructor
  eth_op,     \* the Ethernet constructor last called on it
  eth_view,   \* what that constructor returned
  pkt_call,   \* the last operation called on the Ethernet view
  pkt_mem,    \* the bytes that follow the view's buffer in memory
  arp_buffer, \* the buffer of an ARP Packet
  arp_call,   \* the last operation of the ARP codec
  frame       \* the construction of an ARP request frame: the values handed to the
              \* setters, the position in the sequence of calls, what parsing gave

lifeVars == <<fdtab, trace, opencall, chanres, sock, strong, pc, badClose, badUse>>
ioVars == <<fd_set, timeout, read_buffer, write_buffer, backlog, writable, call, res, sent>>
vars == <<fdtab, trace, opencall, chanres, sock, strong, pc, badClose, badUse,
          fd_set, timeout, read_buffer, write_buffer, backlog, writable, call, res, sent,
          eth_buffer, eth_op, eth_view, pkt_call, pkt_mem, arp_buffer, arp_call, frame>>
ethVars == <<eth_buffer, eth_op, eth_view>>
codecVars == <<pkt_call, pkt_mem, arp_buffer, arp_call, frame>>

NoSock == [fd |-> 0, typ |-> "", protocol |-> 0,
           sll_protocol |-> 0, sll_ifindex |-> 0, sll_addr |-> NoMac]
NoInterface == [index |-> 0, mac |-> NoMac]
NoCall == [network_interface |-> NoInterface, config |-> BaseConfig]
NoRes == [kind |-> "none", err |-> ""]
\* the result of a send_to / next(): Ok carries the yielded view (next() only)
NoIO == [kind |-> "none", err |-> "", view |-> <<>>]
\* bookkeeping of one send_to / next(): what the wait reported, whether a
\* transmit / read syscall was issued, the interruptions so far of the
\* retry loop being run, whether a datagram was queued at any moment of the
\* call, the frame to send and the dst argument, what the read returned
NoCallIO == [wait |-> "none", issued |-> FALSE, interrupts |-> 0, arrived |-> FALSE,
             packet |-> <<>>, dst |-> NoInterface, len |-> 0, dgram |-> <<>>]
NoSent == [bytes |-> <<>>, sll_ifindex |-> 0, sll_addr |-> NoMac, sll_protocol |-> 0]

\* bookkeeping of one operation on an Ethernet view: the buffer and the
\* memory after it before the call, the argument, the value returned, and
\* whether the call panicked or the process took a fault
NoPktCall == [op |-> "none", pre |-> <<>>, mem |-> <<>>, arg |-> <<>>, ret |-> <<>>,
              panic |-> FALSE, signal |-> FALSE]
\* bookkeeping of one operation of the ARP codec: the buffer before the
\* call, the argument, and what came back (bytes, field ranges, a variant,
\* a code, a Result), the offsets of the buffer the call read, a panic.
\* checked tells what the caller knows of the packet: "ok" once check_len
\* has returned Ok, "stale" once a length byte has been set after that,
\* "no" otherwise; was is what the caller knew when it called check_len
NoArpCall == [op |-> "none", pre |-> <<>>, arg |-> <<>>, ret |-> <<>>, fields |-> <<>>,
              variant |-> [name |-> "", other |-> 0], code |-> 0, res |-> "", reads |-> {},
              panic |-> FALSE, checked |-> "no", was |-> "no"]
\* the construction of a frame not begun; parsed holds the fields read
\* back from the finished frame
NoFrame == [pc |-> 0, panic |-> FALSE, destination |-> <<>>, source_mac |-> <<>>,
            source_ip |-> <<>>, target_mac |-> <<>>, target_ip |-> <<>>, parsed |-> <<>>]

(* --------------------------- Ethernet views --------------------------- *)
EthernetPacket_minimum_packet_size == 14
MutableEthernetPacket_minimum_packet_size == 14

\* Option<view>: None, or a view over the bytes (PacketData / MutPacketData)
NoView == [some |-> FALSE, mutable |-> FALSE, data |-> "", bytes |-> <<>>]

\* EthernetPacket::new: a borrowing view, or None for a short buffer
EthernetPacket_new(packet) ==
  IF Len(packet) >= EthernetPacket_minimum_packet_size
    THEN [some |-> TRUE, mutable |-> FALSE, data |-> "Borrowed", bytes |-> packet]
    ELSE NoView

\* EthernetPacket::owned
EthernetPacket_owned(packet) ==
  IF Len(packet) >= EthernetPacket_minimum_packet_size
    THEN [some |-> TRUE, mutable |-> FALSE, data |-> "Owned", bytes |-> packet]
    ELSE NoView

\* MutableEthernetPacket::new
MutableEthernetPacket_new(packet) ==
  IF Len(packet) >= MutableEthernetPacket_minimum_packet_size
    THEN [some |-> TRUE, mutable |-> TRUE, data |-> "Borrowed", bytes |-> packet]
    ELSE NoView

\* faulty variant: a buffer of exactly the header size is refused
MutableEthernetPacket_owned_strict(packet) ==
  IF Len(packet) > MutableEthernetPacket_minimum_packet_size
    THEN [some |-> TRUE, mutable |-> TRUE, data |-> "Owned", bytes |-> packet]
    ELSE NoView
\* MutableEthernetPacket::owned
MutableEthernetPacket_owned(packet) ==
  IF Len(packet) >= MutableEthernetPacket_minimum_packet_size
    THEN [some |-> TRUE, mutable |-> TRUE, data |-> "Owned", bytes |-> packet]
    ELSE NoView

(* ---------------------- Ethernet view operations ---------------------- *)
RECURSIVE BitAnd(_, _)
\* a & b on unsigned integers
BitAnd(a, b) ==
  IF a = 0 \/ b = 0 THEN 0
  ELSE (a % 2) * (b % 2) + 2 * BitAnd(a \div 2, b \div 2)

RECURSIVE BitOr(_, _)
\* a | b on unsigned integers
BitOr(a, b) ==
  IF a = 0 THEN b
  ELSE IF b = 0 THEN a
  ELSE (IF a % 2 = 1 \/ b % 2 = 1 THEN 1 ELSE 0) + 2 * BitOr(a \div 2, b \div 2)

\* EtherType::new(code): a tuple struct, as MacAddr is (six bytes)
EtherType_new(val) == <<val>>

\* get_destination: bytes 0..5 (sequences count from 1)
get_destination(packet) ==
  <<packet[0 + 1], packet[1 + 1], packet[2 + 1],
              packet[3 + 1], packet[4 + 1], packet[5 + 1]>>

\* get_source: bytes 6..11
get_source(packet) ==
  <<packet[6 + 1], packet[7 + 1], packet[8 + 1],
              packet[9 + 1], packet[10 + 1], packet[11 + 1]>>

\* get_ethertype: bytes 12..13, most significant first
get_ethertype(packet) ==
  LET co == 12
      b0 == (packet[co + 0 + 1] * 256) % 65536
      b1 == packet[co + 1 + 1]
  IN EtherType_new(BitOr(b0, b1))

\* set_destination
set_destination(packet, val) ==
  LET vals == val
  IN [packet EXCEPT ![0 + 1] = vals[1] % 256, ![1 + 1] = vals[2] % 256,
                    ![2 + 1] = vals[3] % 256, ![3 + 1] = vals[4] % 256,
                    ![4 + 1] = vals[5] % 256, ![5 + 1] = vals[6] % 256]

\* faulty variant: the six bytes are stored one offset too far
set_source_shifted(packet, val) ==
  LET vals == val
  IN [packet EXCEPT ![7 + 1] = vals[1] % 256, ![8 + 1] = vals[2] % 256,
                    ![9 + 1] = vals[3] % 256, ![10 + 1] = vals[4] % 256,
                    ![11 + 1] = vals[5] % 256, ![12 + 1] = vals[6] % 256]
\* set_source
set_source(packet, val) ==
  LET vals == val
  IN [packet EXCEPT ![6 + 1] = vals[1] % 256, ![7 + 1] = vals[2] % 256,
                    ![8 + 1] = vals[3] % 256, ![9 + 1] = vals[4] % 256,
                    ![10 + 1] = vals[5] % 256, ![11 + 1] = vals[6] % 256]

\* faulty variant: the two bytes of the code are stored low byte first
set_ethertype_swapped(packet, val) ==
  LET vals == val
      co == 12
  IN [packet EXCEPT ![co + 0 + 1] = vals[1] % 256,
                    ![co + 1 + 1] = (BitAnd(vals[1], 65280) \div 256) % 256]
\* set_ethertype: `(val & 65280) >> 8` then `val as u8`
set_ethertype(packet, val) ==
  LET vals == val
      co == 12
  IN [packet EXCEPT ![co + 0 + 1] = (BitAnd(vals[1], 65280) \div 256) % 256,
                    ![co + 1 + 1] = vals[1] % 256]

\* faulty variant: the payload is taken from the last header byte on
payload_from_header(packet) ==
  LET start == 14
  IN IF Len(packet) <= start THEN <<>> ELSE SubSeq(packet, start, Len(packet))
\* Packet::payload (and payload_mut): the bytes after the header
payload(packet) ==
  LET start == 14
  IN IF Len(packet) <= start THEN <<>> ELSE SubSeq(packet, start + 1, Len(packet))

\* set_payload: copy_nonoverlapping of vals to the address of byte 14,
\* with no test of vals.len() against the room the buffer has. mem is what
\* follows the buffer in memory; a copy that runs past the end of the
\* buffer lands in it ("overrun"), or the process takes a fault ("fault").
set_payload(packet, mem, vals, outcome) ==
  LET current_offset == 14
      room == Len(packet) - current_offset
      all == packet \o mem
      copied == [i \in 1..Len(all) |->
                   IF i > current_offset /\ i <= current_offset + Len(vals)
                     THEN vals[i - current_offset] ELSE all[i]]
  IN IF Len(vals) <= room
       THEN [packet |-> SubSeq(copied, 1, Len(packet)), mem |-> mem,
             panic |-> FALSE, signal |-> FALSE]
     ELSE IF outcome = "overrun"
       THEN [packet |-> SubSeq(copied, 1, Len(packet)),
             mem |-> SubSeq(copied, Len(packet) + 1, Len(all)),
             panic |-> FALSE, signal |-> FALSE]
     ELSE [packet |-> packet, mem |-> mem, panic |-> FALSE, signal |-> TRUE]

\* faulty variant: a source of the same length is refused
clone_from_strict(packet, other) ==
  IF ~(Len(packet) > Len(other))
    THEN [packet |-> packet, panic |-> TRUE]
    ELSE [packet |-> [i \in 1..Len(packet) |-> IF i <= Len(other) THEN other[i] ELSE packet[i]],
          panic |-> FALSE]
\* MutablePacket::clone_from: the assert, then the copy of other.len() bytes
clone_from(packet, other) ==
  IF ~(Len(packet) >= Len(other))
    THEN [packet |-> packet, panic |-> TRUE]
    ELSE [packet |-> [i \in 1..Len(packet) |-> IF i <= Len(other) THEN other[i] ELSE packet[i]],
          panic |-> FALSE]

(* ------------------------------ ARP codec ------------------------------ *)
u8_MAX == 255
u16_MAX == 65535

\* a named variant of an open enumeration, and its Unknown(other)
Variant(name) == [name |-> name, other |-> 0]
Unknown(other) == [name |-> "Unknown", other |-> other]

\* faulty variant: the arm of Ipv6 is missing
Protocol_from_no_ipv6(value) ==
  CASE value = 2048 -> Variant("Ipv4")
    [] value = 2054 -> Variant("Arp")
    [] OTHER -> Unknown(value)
\* From<u16> for Protocol
Protocol_from(value) ==
  CASE value = 2048 -> Variant("Ipv4")
    [] value = 2054 -> Variant("Arp")
    [] value = 34525 -> Variant("Ipv6")
    [] OTHER -> Unknown(value)

\* From<Protocol> for u16
u16_from_Protocol(value) ==
  CASE value.name = "Ipv4" -> 2048
    [] value.name = "Arp" -> 2054
    [] value.name = "Ipv6" -> 34525
    [] value.name = "Unknown" -> value.other

\* From<u16> for Hardware
Hardware_from(value) ==
  CASE value = 1 -> Variant("Ethernet")
    [] OTHER -> Unknown(value)

\* From<Hardware> for u16
u16_from_Hardware(value) ==
  CASE value.name = "Ethernet" -> 1
    [] value.name = "Unknown" -> value.other

\* faulty variant: the arm of Reply is missing
Operation_from_no_reply(value) ==
  CASE value = 1 -> Variant("Request")
    [] OTHER -> Unknown(value)
\* From<u16> for Operation
Operation_from(value) ==
  CASE value = 1 -> Variant("Request")
    [] value = 2 -> Variant("Reply")
    [] OTHER -> Unknown(value)

\* From<Operation> for u16
u16_from_Operation(value) ==
  CASE value.name = "Request" -> 1
    [] value.name = "Reply" -> 2
    [] value.name = "Unknown" -> value.other

\* a Field is the half-open range start..end of byte offsets
Field(start, end) == [start |-> start, end |-> end]
HTYPE == Field(0, 2)
PTYPE == Field(2, 4)
HLEN == 4
PLEN == 5
OPER == Field(6, 8)

SHA(hardware_len, protocol_len) ==
  LET start == OPER.end
  IN Field(start, start + hardware_len)

SPA(hardware_len, protocol_len) ==
  LET start == SHA(hardware_len, protocol_len).end
  IN Field(start, start + protocol_len)

THA(hardware_len, protocol_len) ==
  LET start == SPA(hardware_len, protocol_len).end
  IN Field(start, start + hardware_len)

\* faulty variant: the end of the range is computed in the width of the lengths
TPA_u8(hardware_len, protocol_len) ==
  LET start == THA(hardware_len, protocol_len).end
  IN Field(start, (start + protocol_len) % (u8_MAX + 1))
TPA(hardware_len, protocol_len) ==
  LET start == THA(hardware_len, protocol_len).end
  IN Field(start, start + protocol_len)

\* BigEndian::read_u16 / write_u16 on a two-byte slice
BigEndian_read_u16(buf) == buf[1] * 256 + buf[2]
\* faulty variant: the low byte is stored first
BigEndian_write_u16_le(n) == <<n % 256, n \div 256>>
BigEndian_write_u16(n) == <<n \div 256, n % 256>>

\* data[field], on a range inside the slice
range_of(data, field) == SubSeq(data, field.start + 1, field.end)
\* data[field] <- value, the lengths being equal
range_put(data, field, value) ==
  [i \in 1..Len(data) |->
     IF i > field.start /\ i <= field.end THEN value[i - field.start] ELSE data[i]]

\* Packet::hardware_len / protocol_len: data[HLEN], data[PLEN]
hardware_len(data) == data[HLEN + 1]
protocol_len(data) == data[PLEN + 1]

\* Packet::hardware_type / protocol_type / operation, on a buffer that
\* holds the 8-byte header
hardware_type(data) == Hardware_from(BigEndian_read_u16(range_of(data, HTYPE)))
protocol_type(data) == Protocol_from(BigEndian_read_u16(range_of(data, PTYPE)))
operation(data) == Operation_from(BigEndian_read_u16(range_of(data, OPER)))

\* Packet::set_hardware_type / set_protocol_type / set_hardware_len /
\* set_protocol_len / set_operation, on a buffer that holds the header
set_hardware_type(data, value) ==
  range_put(data, HTYPE, BigEndian_write_u16(u16_from_Hardware(value)))
set_protocol_type(data, value) ==
  range_put(data, PTYPE, BigEndian_write_u16(u16_from_Protocol(value)))

\* faulty variant: the hardware length is stored in the byte of the protocol length
set_hardware_len_plen(data, value) == [data EXCEPT ![PLEN + 1] = value]
set_hardware_len(data, value) == [data EXCEPT ![HLEN + 1] = value]
set_protocol_len(data, value) == [data EXCEPT ![PLEN + 1] = value]
set_operation(data, value) ==
  range_put(data, OPER, BigEndian_write_u16(u16_from_Operation(value)))

\* what an accessor returns, when it does not panic
Returned(bytes) == [panic |-> FALSE, bytes |-> bytes]

\* an address getter: both length bytes are read, then the range is indexed
addr_get(data, field) ==
  IF field.start <= field.end /\ field.end <= Len(data)
    THEN Returned(range_of(data, field))
    ELSE [panic |-> TRUE, bytes |-> <<>>]

source_hardware_addr(data) ==
  IF Len(data) <= PLEN THEN [panic |-> TRUE, bytes |-> <<>>]
  ELSE addr_get(data, SHA(hardware_len(data), protocol_len(data)))

source_protocol_addr(data) ==
  IF Len(data) <= PLEN THEN [panic |-> TRUE, bytes |-> <<>>]
  ELSE addr_get(data, SPA(hardware_len(data), protocol_len(data)))

target_hardware_addr(data) ==
  IF Len(data) <= PLEN THEN [panic |-> TRUE, bytes |-> <<>>]
  ELSE addr_get(data, THA(hardware_len(data), protocol_len(data)))

target_protocol_addr(data) ==
  IF Len(data) <= PLEN THEN [panic |-> TRUE, bytes |-> <<>>]
  ELSE addr_get(data, TPA(hardware_len(data), protocol_len(data)))

\* faulty variant: a value of another length is copied as far as it goes
addr_set_lenient(data, field, value) ==
  IF field.end > Len(data)
    THEN [panic |-> TRUE, bytes |-> data]
    ELSE Returned([i \in 1..Len(data) |->
                     IF i > field.start /\ i <= field.end /\ i - field.start <= Len(value)
                       THEN value[i - field.start] ELSE data[i]])
\* an address setter: data[field].copy_from_slice(value); the index panics
\* on a range outside the buffer, the copy on a length that differs. The
\* bytes returned are the buffer after the call.
addr_set(data, field, value) ==
  IF field.end > Len(data) \/ Len(value) # field.end - field.start
    THEN [panic |-> TRUE, bytes |-> data]
    ELSE Returned(range_put(data, field, value))

set_source_hardware_addr(data, value) ==
  IF Len(data) <= PLEN THEN [panic |-> TRUE, bytes |-> data]
  ELSE addr_set(data, SHA(hardware_len(data), protocol_len(data)), value)

set_source_protocol_addr(data, value) ==
  IF Len(data) <= PLEN THEN [panic |-> TRUE, bytes |-> data]
  ELSE addr_set(data, SPA(hardware_len(data), protocol_len(data)), value)

\* faulty variant: the target hardware address is stored in the sender's field
set_target_hardware_addr_sender(data, value) ==
  IF Len(data) <= PLEN THEN [panic |-> TRUE, bytes |-> data]
  ELSE addr_set(data, SHA(hardware_len(data), protocol_len(data)), value)
set_target_hardware_addr(data, value) ==
  IF Len(data) <= PLEN THEN [panic |-> TRUE, bytes |-> data]
  ELSE addr_set(data, THA(hardware_len(data), protocol_len(data)), value)

set_target_protocol_addr(data, value) ==
  IF Len(data) <= PLEN THEN [panic |-> TRUE, bytes |-> data]
  ELSE addr_set(data, TPA(hardware_len(data), protocol_len(data)), value)

\* faulty variant: the buffer is measured against the sender's two fields only
check_len_sender_only(buffer) ==
  LET len == Len(buffer)
  IN IF len < OPER.end
       THEN [res |-> "Truncated", reads |-> {}, panic |-> FALSE]
     ELSE IF len < SPA(hardware_len(buffer), protocol_len(buffer)).end
       THEN [res |-> "Truncated", reads |-> {HLEN, PLEN}, panic |-> FALSE]
     ELSE [res |-> "Ok", reads |-> {HLEN, PLEN}, panic |-> FALSE]
\* faulty variant: the length bytes are read before the header is known to be there
check_len_no_header_test(buffer) ==
  LET len == Len(buffer)
  IN IF len <= PLEN
       THEN [res |-> "", reads |-> IF len <= HLEN THEN {} ELSE {HLEN}, panic |-> TRUE]
     ELSE IF len < TPA(hardware_len(buffer), protocol_len(buffer)).end
       THEN [res |-> "Truncated", reads |-> {HLEN, PLEN}, panic |-> FALSE]
     ELSE [res |-> "Ok", reads |-> {HLEN, PLEN}, panic |-> FALSE]
\* Packet::check_len, with the offsets of the buffer it reads
check_len(buffer) ==
  LET len == Len(buffer)
  IN IF len < OPER.end
       THEN [res |-> "Truncated", reads |-> {}, panic |-> FALSE]
     ELSE IF len < TPA(hardware_len(buffer), protocol_len(buffer)).end
       THEN [res |-> "Truncated", reads |-> {HLEN, PLEN}, panic |-> FALSE]
     ELSE [res |-> "Ok", reads |-> {HLEN, PLEN}, panic |-> FALSE]

(* ------------------------------ syscalls ------------------------------ *)
\* an OS view used inside one call: the descriptor table and the slot's trace
Sys(name, fd, ret, errno) == [call |-> name, fd |-> fd, ret |-> ret, errno |-> errno]

\* sockets::close: close(2), result ignored
sockets_close(os, s) ==
  [tab |-> IF s \in DOMAIN os.tab THEN [os.tab EXCEPT ![s] = 0] ELSE os.tab,
   trace |-> Append(os.trace,
                    Sys("close", s, IF s \in DOMAIN os.tab /\ os.tab[s] # 0 THEN 0 ELSE -1, ""))]

\* the match on config.channel_type at the head of channel().  `Layer2` is
\* not a path to the variant (nothing imports it): it is an identifier
\* pattern, which binds any value, so the first arm is taken for every
\* channel type and the Layer3 arm is never reached.
match_channel_type(channel_type) ==
  IF TRUE
    THEN [typ |-> SOCK_RAW, proto |-> eth_p_all]
    ELSE [typ |-> SOCK_DGRAM, proto |-> channel_type.ethertype]

\* network_addr_to_sockaddr: the sockaddr_ll bound and later used to send
network_addr_to_sockaddr(ni, proto) ==
  [sll_protocol |-> to_be(proto % 65536), sll_ifindex |-> ni.index, sll_addr |-> ni.mac]

\* the error paths of channel(): capture errno, close the socket, return
close_on_bind_error(os, socket) == sockets_close(os, socket)
\* faulty variant: the membership error path returns without closing the socket
close_on_promisc_error_leak(os, socket) == os
close_on_promisc_error(os, socket) == sockets_close(os, socket)
close_on_nonblock_error(os, socket) == sockets_close(os, socket)

\* internal::duration_to_timespec over the optional timeout (milliseconds)
duration_to_timespec(dur) ==
  [some |-> TRUE, tv_sec |-> dur.ms \div 1000, tv_nsec |-> (dur.ms % 1000) * 1000000]
\* faulty variant: no timeout is taken for a timeout of zero
map_timeout_zero(to) == duration_to_timespec(to)
map_timeout(to) == IF to.some THEN duration_to_timespec(to) ELSE NoTimespec

\* faulty variant: the local handle is leaked instead of dropped on return
arc_count_leak == 1 + 1 + 1
\* Arc::new(FileDesc), one clone per half, the local handle dropped on return
arc_count_on_return == 1 + 1 + 1 - 1

\* faulty variant: every handle drops the FileDesc, as with a duplicated raw descriptor
arc_is_last_always(old) == TRUE
\* Arc::drop: the handle that takes the count from 1 to 0 drops the FileDesc
arc_is_last(old) == old = 1

(* ------------------------------ channel() ----------------------------- *)
\* faulty variant: the socket is made non-blocking before the membership is requested
channel_run_nonblock_first(c, network_interface, config, fault) ==
  LET p == match_channel_type(config.channel_type)
      free == {f \in Fds : fdtab[f] = 0}
      socket == IF fault.step = "socket" THEN -1 ELSE Min(free)
      os0 == [tab |-> fdtab, trace |-> <<>>]
      os1 == [tab |-> IF socket = -1 THEN os0.tab ELSE [os0.tab EXCEPT ![socket] = c],
              trace |-> Append(os0.trace,
                               Sys("socket", socket, socket,
                                   IF socket = -1 THEN fault.errno ELSE ""))]
      addr == network_addr_to_sockaddr(network_interface, p.proto)
      made == [fd |-> socket, typ |-> p.typ, protocol |-> to_be(p.proto)]
                 @@ addr
      os2 == [os1 EXCEPT !.trace = Append(@,
                 Sys("bind", socket, IF fault.step = "bind" THEN -1 ELSE 0,
                     IF fault.step = "bind" THEN fault.errno ELSE ""))]
      os3 == [os2 EXCEPT !.trace = Append(@,
                 Sys("fcntl", socket, IF fault.step = "fcntl" THEN -1 ELSE 0,
                     IF fault.step = "fcntl" THEN fault.errno ELSE ""))]
      os4 == [os3 EXCEPT !.trace = Append(@,
                 Sys("setsockopt", socket, IF fault.step = "setsockopt" THEN -1 ELSE 0,
                     IF fault.step = "setsockopt" THEN fault.errno ELSE ""))]
      Err(os, s) == [os |-> os, sock |-> s, res |-> [kind |-> "Err", err |-> fault.errno]]
  IN  IF socket = -1 THEN Err(os1, NoSock)
      ELSE IF fault.step = "bind" THEN Err(close_on_bind_error(os2, socket), made)
      ELSE IF fault.step = "fcntl" THEN Err(close_on_nonblock_error(os3, socket), made)
      ELSE IF fault.step = "setsockopt" THEN Err(close_on_promisc_error(os4, socket), made)
      ELSE [os |-> os4, sock |-> made, res |-> [kind |-> "Ok", err |-> ""]]
\* the outcome of one call: the OS view after it, the socket and the result
channel_run(c, network_interface, config, fault) ==
  LET p == match_channel_type(config.channel_type)
      free == {f \in Fds : fdtab[f] = 0}
      socket == IF fault.step = "socket" THEN -1 ELSE Min(free)
      os0 == [tab |-> fdtab, trace |-> <<>>]
      os1 == [tab |-> IF socket = -1 THEN os0.tab ELSE [os0.tab EXCEPT ![socket] = c],
              trace |-> Append(os0.trace,
                               Sys("socket", socket, socket,
                                   IF socket = -1 THEN fault.errno ELSE ""))]
      addr == network_addr_to_sockaddr(network_interface, p.proto)
      made == [fd |-> socket, typ |-> p.typ, protocol |-> to_be(p.proto)]
                 @@ addr
      os2 == [os1 EXCEPT !.trace = Append(@,
                 Sys("bind", socket, IF fault.step = "bind" THEN -1 ELSE 0,
                     IF fault.step = "bind" THEN fault.errno ELSE ""))]
      os3 == [os2 EXCEPT !.trace = Append(@,
                 Sys("setsockopt", socket, IF fault.step = "setsockopt" THEN -1 ELSE 0,
                     IF fault.step = "setsockopt" THEN fault.errno ELSE ""))]
      os4 == [os3 EXCEPT !.trace = Append(@,
                 Sys("fcntl", socket, IF fault.step = "fcntl" THEN -1 ELSE 0,
                     IF fault.step = "fcntl" THEN fault.errno ELSE ""))]
      Err(os, s) == [os |-> os, sock |-> s, res |-> [kind |-> "Err", err |-> fault.errno]]
  IN  IF socket = -1 THEN Err(os1, NoSock)
      ELSE IF fault.step = "bind" THEN Err(close_on_bind_error(os2, socket), made)
      ELSE IF fault.step = "setsockopt" THEN Err(close_on_promisc_error(os3, socket), made)
      ELSE IF fault.step = "fcntl" THEN Err(close_on_nonblock_error(os4, socket), made)
      ELSE [os |-> os4, sock |-> made, res |-> [kind |-> "Ok", err |-> ""]]

channel(c, network_interface, config, fault) ==
  /\ \A h \in Halves : pc[c][h] \in {"none", "gone"}
  \* what the host can do: no free descriptor makes socket() fail, an
  \* index that names no interface makes bind() fail
  /\ (\A f \in Fds : fdtab[f] # 0) => fault = [step |-> "socket", errno |-> "EMFILE"]
  /\ network_interface.index \notin ExistingIndexes => fault.step \in {"socket", "bind"}
  /\ \E out \in {channel_run(c, network_interface, config, fault)} :
     LET ok == out.res.kind = "Ok"
     IN /\ fdtab' = out.os.tab
        /\ trace' = [trace EXCEPT ![c] = out.os.trace]
        /\ opencall' = [opencall EXCEPT
                          ![c] = [network_interface |-> network_interface, config |-> config]]
        /\ chanres' = [chanres EXCEPT ![c] = out.res]
        /\ sock' = [sock EXCEPT ![c] = out.sock]
        /\ strong' = [strong EXCEPT ![c] = IF ok THEN arc_count_on_return ELSE 0]
        /\ pc' = [pc EXCEPT ![c] = [h \in Halves |-> IF ok THEN "idle" ELSE "none"]]
        \* FD_ZERO then FD_SET(fd.fd) on each half's set
        /\ fd_set' = [fd_set EXCEPT ![c] = [h \in Halves |-> ok]]
        /\ timeout' = [timeout EXCEPT ![c] =
              IF ok THEN [tx |-> map_timeout(config.write_timeout),
                          rx |-> map_timeout(config.read_timeout)]
                    ELSE [h \in Halves |-> NoTimespec]]
        /\ read_buffer' = [read_buffer EXCEPT ![c] =
              IF ok THEN Zeros(config.read_buffer_size) ELSE <<>>]
        /\ write_buffer' = [write_buffer EXCEPT ![c] =
              IF ok THEN Zeros(config.write_buffer_size) ELSE <<>>]
        /\ backlog' = [backlog EXCEPT ![c] = <<>>]
        /\ writable' = [writable EXCEPT ![c] = ok]
        /\ call' = [call EXCEPT ![c] = [h \in Halves |-> NoCallIO]]
        /\ res' = [res EXCEPT ![c] = [h \in Halves |-> NoIO]]
        /\ sent' = [sent EXCEPT ![c] = NoSent]
        /\ UNCHANGED <<ethVars, codecVars, badClose, badUse>>

(* ------------------------- dropping a half ---------------------------- *)
\* drop of a DataLinkSenderImpl / DataLinkReceiverImpl: its Arc<FileDesc>
\* handle is released with one atomic decrement.  The half's own fields go
\* with it, and so does a view that borrowed the read buffer.
DropHalf(c, h) ==
  /\ pc[c][h] = "idle"
  /\ strong' = [strong EXCEPT ![c] = @ - 1]
  /\ pc' = [pc EXCEPT ![c][h] = IF arc_is_last(strong[c]) THEN "release" ELSE "gone"]
  /\ fd_set' = [fd_set EXCEPT ![c][h] = FALSE]
  /\ timeout' = [timeout EXCEPT ![c][h] = NoTimespec]
  /\ read_buffer' = IF h = "rx" THEN [read_buffer EXCEPT ![c] = <<>>] ELSE read_buffer
  /\ write_buffer' = IF h = "tx" THEN [write_buffer EXCEPT ![c] = <<>>] ELSE write_buffer
  /\ call' = [call EXCEPT ![c][h] = NoCallIO]
  /\ res' = [res EXCEPT ![c][h] = NoIO]
  /\ UNCHANGED <<ethVars, codecVars, fdtab, trace, opencall, chanres, sock, badClose, badUse,
                 backlog, writable, sent>>

\* FileDesc::drop, run by the handle that was last
FileDesc_drop(c, h) ==
  /\ pc[c][h] = "release"
  /\ \E out \in {sockets_close([tab |-> fdtab, trace |-> trace[c]], sock[c].fd)} :
        /\ fdtab' = out.tab
        /\ trace' = [trace EXCEPT ![c] = out.trace]
        /\ badClose' = (badClose \/ fdtab[sock[c].fd] # c)
  /\ pc' = [pc EXCEPT ![c][h] = "gone"]
  /\ backlog' = [backlog EXCEPT ![c] = <<>>]
  /\ UNCHANGED <<ethVars, codecVars, opencall, chanres, sock, strong, badUse,
                 fd_set, timeout, read_buffer, write_buffer, writable, call, res, sent>>

(* ------------------------------ the host ------------------------------ *)
\* the slot's socket is open
SocketOpen(c) == sock[c].fd \in Fds /\ fdtab[sock[c].fd] = c

\* a frame arrives on the interface and is queued on the socket
Deliver(c, d) ==
  /\ chanres[c].kind = "Ok" /\ SocketOpen(c)
  /\ Len(backlog[c]) < MaxBacklog
  /\ backlog' = [backlog EXCEPT ![c] = Append(@, d)]
  /\ call' = [call EXCEPT ![c]["rx"].arrived = (@ \/ pc[c]["rx"] \in {"wait", "io"})]
  /\ UNCHANGED <<ethVars, codecVars, lifeVars, fd_set, timeout, read_buffer, write_buffer, writable, res, sent>>

\* the socket's send queue fills up or drains
TxQueue(c) ==
  /\ chanres[c].kind = "Ok" /\ SocketOpen(c)
  /\ writable' = [writable EXCEPT ![c] = ~@]
  /\ UNCHANGED <<ethVars, codecVars, lifeVars, fd_set, timeout, read_buffer, write_buffer, backlog, call, res, sent>>

\* how a pselect on one set can return: it fails (errno), its timeout
\* elapses, or the descriptor is reported ready
WaitOutcomes == {"EINTR", "ENOMEM", "elapse", "ready"}

\* pselect(fd + 1, set, timeout) on a set that holds the descriptor or
\* nothing: -1 leaves the set as it was, 0 clears it, 1 leaves the ready
\* descriptor in it
pselect(set, ready, to, outcome) ==
  CASE outcome = "ready" -> [ret |-> 1, set |-> TRUE, errno |-> ""]
    [] outcome = "elapse" -> [ret |-> 0, set |-> FALSE, errno |-> ""]
    [] OTHER -> [ret |-> -1, set |-> set, errno |-> outcome]

\* which returns the host can produce
pselect_possible(set, ready, to, outcome) ==
  CASE outcome = "ready" -> set /\ ready
    [] outcome = "elapse" -> to.some /\ ~(set /\ ready)
    [] OTHER -> TRUE

(* ------------------------------ send_to ------------------------------- *)
\* faulty variant: the timeout return is not told from the ready return
send_to_branch_no_timeout(ret) ==
  IF ret = -1 THEN "err" ELSE "transmit"
\* the branch send_to takes on pselect's return value
send_to_branch(ret) ==
  IF ret = -1 THEN "err" ELSE IF ret = 0 THEN "timedout" ELSE "transmit"

\* faulty variant: the interruption is returned like any other error
retry_again_never(ret, errno) == FALSE
\* internal::retry: call again while the call fails with EINTR
retry_again(ret, errno) == ret = -1 /\ errno = "EINTR"

\* faulty variant: a dst that is given replaces the address of the channel
send_to_args_dst(packet, send_addr, dst, buffer) ==
  [bytes |-> packet,
   addr |-> IF dst = NoInterface THEN send_addr
            ELSE network_addr_to_sockaddr(dst, eth_p_all)]
\* what send_to hands to internal::send_to: packet.packet() and
\* self.send_addr; _dst and self.write_buffer are not read
send_to_args(packet, send_addr, dst, buffer) ==
  [bytes |-> packet,
   addr |-> [sll_protocol |-> send_addr.sll_protocol, sll_ifindex |-> send_addr.sll_ifindex,
             sll_addr |-> send_addr.sll_addr]]

\* the caller invokes send_to(packet, dst)
SendCall(c, packet, dst) ==
  /\ pc[c]["tx"] = "idle"
  /\ pc' = [pc EXCEPT ![c]["tx"] = "wait"]
  /\ call' = [call EXCEPT ![c]["tx"] = [NoCallIO EXCEPT !.packet = packet, !.dst = dst]]
  /\ res' = [res EXCEPT ![c]["tx"] = NoIO]
  /\ UNCHANGED <<ethVars, codecVars, fdtab, trace, opencall, chanres, sock, strong, badClose, badUse,
                 fd_set, timeout, read_buffer, write_buffer, backlog, writable, sent>>

\* pselect returns inside send_to
SendWait(c, outcome) ==
  /\ pc[c]["tx"] = "wait"
  /\ pselect_possible(fd_set[c]["tx"], writable[c] /\ SocketOpen(c), timeout[c]["tx"], outcome)
  /\ LET r == pselect(fd_set[c]["tx"], writable[c], timeout[c]["tx"], outcome)
         b == send_to_branch(r.ret)
     IN /\ fd_set' = [fd_set EXCEPT ![c]["tx"] = r.set]
        /\ call' = [call EXCEPT ![c]["tx"].wait =
                      IF r.ret = -1 THEN "error" ELSE IF r.ret = 0 THEN "timeout" ELSE "ready"]
        /\ pc' = [pc EXCEPT ![c]["tx"] = IF b = "transmit" THEN "io" ELSE "idle"]
        /\ res' = [res EXCEPT ![c]["tx"] =
                      CASE b = "err" -> [kind |-> "Err", err |-> r.errno, view |-> <<>>]
                        [] b = "timedout" -> [kind |-> "TimedOut", err |-> "", view |-> <<>>]
                        [] OTHER -> NoIO]
  /\ badUse' = (badUse \/ ~SocketOpen(c))
  /\ UNCHANGED <<ethVars, codecVars, fdtab, trace, opencall, chanres, sock, strong, badClose,
                 timeout, read_buffer, write_buffer, backlog, writable, sent>>

\* how one sendto can return
SendOutcomes == {"EINTR", "ENETDOWN", "ok"}

\* one sendto issued by internal::send_to inside retry
SendTo(c, outcome) ==
  /\ pc[c]["tx"] = "io"
  /\ outcome = "EINTR" => call[c]["tx"].interrupts < MaxRetry
  /\ LET a == send_to_args(call[c]["tx"].packet, sock[c], call[c]["tx"].dst, write_buffer[c])
         ret == IF outcome = "ok" THEN Len(a.bytes) ELSE -1
         again == retry_again(ret, outcome)
     IN /\ call' = [call EXCEPT ![c]["tx"].issued = TRUE,
                                ![c]["tx"].interrupts = IF again THEN @ + 1 ELSE 0]
        /\ pc' = [pc EXCEPT ![c]["tx"] = IF again THEN "io" ELSE "idle"]
        /\ res' = [res EXCEPT ![c]["tx"] =
                      IF again THEN NoIO
                      ELSE IF ret < 0 THEN [kind |-> "Err", err |-> outcome, view |-> <<>>]
                      ELSE [kind |-> "Ok", err |-> "", view |-> <<>>]]
        /\ sent' = [sent EXCEPT ![c] =
                      IF outcome = "ok"
                        THEN [bytes |-> a.bytes,
                              sll_ifindex |-> a.addr.sll_ifindex,
                              sll_addr |-> a.addr.sll_addr,
                              sll_protocol |-> a.addr.sll_protocol]
                        ELSE @]
  /\ badUse' = (badUse \/ ~SocketOpen(c))
  /\ UNCHANGED <<ethVars, codecVars, fdtab, trace, opencall, chanres, sock, strong, badClose,
                 fd_set, timeout, read_buffer, write_buffer, backlog, writable>>

(* ------------------------------- next() ------------------------------- *)
\* the slice of the read buffer is wrapped by EthernetPacket::new (below)
\* the branch next() takes on pselect's return value
next_branch(ret) ==
  IF ret = -1 THEN "err" ELSE IF ret = 0 THEN "timedout" ELSE "read"

\* faulty variant: the whole read buffer is handed over
read_slice_whole(buffer, len) == buffer
\* the slice of the read buffer handed to EthernetPacket::new
read_slice(buffer, len) == SubSeq(buffer, 1, len)

\* recvfrom copies the head datagram into the buffer, cut to the buffer's
\* length, and returns the number of bytes copied
recvfrom(buffer, d) ==
  LET n == IF Len(d) <= Len(buffer) THEN Len(d) ELSE Len(buffer)
  IN [ret |-> n, buffer |-> [i \in 1..Len(buffer) |-> IF i <= n THEN d[i] ELSE buffer[i]]]

\* faulty variant: the datagram read stays queued on the socket
recv_dequeue_peek(queue) == queue
\* recvfrom is called with flags 0: the datagram it returns leaves the queue
recv_dequeue(queue) == Tail(queue)

\* the caller invokes next() on the receiver's iterator; a thread that
\* panicked in next() is unwinding and calls nothing more
NextCall(c) ==
  /\ pc[c]["rx"] = "idle"
  /\ res[c]["rx"].kind # "panic"
  /\ pc' = [pc EXCEPT ![c]["rx"] = "wait"]
  /\ call' = [call EXCEPT ![c]["rx"] = [NoCallIO EXCEPT !.arrived = (backlog[c] # <<>>)]]
  /\ res' = [res EXCEPT ![c]["rx"] = NoIO]
  /\ UNCHANGED <<ethVars, codecVars, fdtab, trace, opencall, chanres, sock, strong, badClose, badUse,
                 fd_set, timeout, read_buffer, write_buffer, backlog, writable, sent>>

\* pselect returns inside next()
NextWait(c, outcome) ==
  /\ pc[c]["rx"] = "wait"
  /\ pselect_possible(fd_set[c]["rx"], backlog[c] # <<>> /\ SocketOpen(c),
                      timeout[c]["rx"], outcome)
  /\ LET r == pselect(fd_set[c]["rx"], backlog[c] # <<>>, timeout[c]["rx"], outcome)
         b == next_branch(r.ret)
     IN /\ fd_set' = [fd_set EXCEPT ![c]["rx"] = r.set]
        /\ call' = [call EXCEPT ![c]["rx"].wait =
                      IF r.ret = -1 THEN "error" ELSE IF r.ret = 0 THEN "timeout" ELSE "ready"]
        /\ pc' = [pc EXCEPT ![c]["rx"] = IF b = "read" THEN "io" ELSE "idle"]
        /\ res' = [res EXCEPT ![c]["rx"] =
                      CASE b = "err" -> [kind |-> "Err", err |-> r.errno, view |-> <<>>]
                        [] b = "timedout" -> [kind |-> "TimedOut", err |-> "", view |-> <<>>]
                        [] OTHER -> NoIO]
  /\ badUse' = (badUse \/ ~SocketOpen(c))
  /\ UNCHANGED <<ethVars, codecVars, fdtab, trace, opencall, chanres, sock, strong, badClose,
                 timeout, read_buffer, write_buffer, backlog, writable, sent>>

\* how one recvfrom can return
RecvOutcomes == {"EINTR", "ENETDOWN", "ok"}

\* one recvfrom issued by internal::recv_from inside retry, and on its
\* final return the rest of next(): EthernetPacket::new(..).unwrap()
RecvFrom(c, outcome) ==
  /\ pc[c]["rx"] = "io"
  /\ outcome = "EINTR" => call[c]["rx"].interrupts < MaxRetry
  /\ outcome = "ok" => backlog[c] # <<>>
  /\ \E r \in {IF outcome = "ok" THEN recvfrom(read_buffer[c], Head(backlog[c]))
                                  ELSE [ret |-> -1, buffer |-> read_buffer[c]]} :
     LET again == retry_again(r.ret, outcome)
         v == EthernetPacket_new(read_slice(r.buffer, r.ret))
     IN /\ call' = [call EXCEPT ![c]["rx"].issued = TRUE,
                                ![c]["rx"].interrupts = IF again THEN @ + 1 ELSE 0,
                                ![c]["rx"].len = IF outcome = "ok" THEN r.ret ELSE @,
                                ![c]["rx"].dgram = IF outcome = "ok" THEN Head(backlog[c]) ELSE @]
        /\ read_buffer' = [read_buffer EXCEPT ![c] = r.buffer]
        /\ backlog' = [backlog EXCEPT ![c] = IF outcome = "ok" THEN recv_dequeue(@) ELSE @]
        /\ pc' = [pc EXCEPT ![c]["rx"] = IF again THEN "io" ELSE "idle"]
        /\ res' = [res EXCEPT ![c]["rx"] =
                      IF again THEN NoIO
                      ELSE IF r.ret < 0 THEN [kind |-> "Err", err |-> outcome, view |-> <<>>]
                      ELSE IF v.some THEN [kind |-> "Ok", err |-> "", view |-> v.bytes]
                      ELSE [kind |-> "panic", err |-> "", view |-> <<>>]]
  /\ badUse' = (badUse \/ ~SocketOpen(c))
  /\ UNCHANGED <<ethVars, codecVars, fdtab, trace, opencall, chanres, sock, strong, badClose,
                 fd_set, timeout, write_buffer, writable, sent>>

(* --------------------------- specifications --------------------------- *)
Init ==
  /\ fdtab = [f \in Fds |-> 0]
  /\ trace = [c \in Chans |-> <<>>]
  /\ opencall = [c \in Chans |-> NoCall]
  /\ chanres = [c \in Chans |-> NoRes]
  /\ sock = [c \in Chans |-> NoSock]
  /\ strong = [c \in Chans |-> 0]
  /\ pc = [c \in Chans |-> [h \in Halves |-> "none"]]
  /\ badClose = FALSE
  /\ badUse = FALSE
  /\ fd_set = [c \in Chans |-> [h \in Halves |-> FALSE]]
  /\ timeout = [c \in Chans |-> [h \in Halves |-> NoTimespec]]
  /\ read_buffer = [c \in Chans |-> <<>>]
  /\ write_buffer = [c \in Chans |-> <<>>]
  /\ backlog = [c \in Chans |-> <<>>]
  /\ writable = [c \in Chans |-> FALSE]
  /\ call = [c \in Chans |-> [h \in Halves |-> NoCallIO]]
  /\ res = [c \in Chans |-> [h \in Halves |-> NoIO]]
  /\ sent = [c \in Chans |-> NoSent]
  /\ eth_buffer = <<>>
  /\ eth_op = "none"
  /\ eth_view = NoView
  /\ pkt_call = NoPktCall
  /\ pkt_mem = <<>>
  /\ arp_buffer = <<>>
  /\ arp_call = NoArpCall
  /\ frame = NoFrame

\* channels opened and dropped, over all the slots
Next ==
  \/ \E c \in Chans, a \in LifecycleCalls, fault \in Faults :
       channel(c, a.network_interface, a.config, fault)
  \/ \E c \in Chans, h \in Halves : DropHalf(c, h)
  \/ \E c \in Chans, h \in Halves : FileDesc_drop(c, h)

Spec == Init /\ [][Next]_vars

\* one channel in use: the sender on one thread, the receiver on another
IOChan == Min(Chans)

NextIO ==
  \/ \E ni \in NetworkInterfaces, config \in IOConfigs, fault \in Faults :
       channel(IOChan, ni, config, fault)
  \/ \E h \in Halves : DropHalf(IOChan, h)
  \/ \E h \in Halves : FileDesc_drop(IOChan, h)
  \/ \E d \in Datagrams : Deliver(IOChan, d)
  \/ TxQueue(IOChan)
  \/ \E packet \in Packets : SendCall(IOChan, packet, NoInterface)
  \/ \E o \in WaitOutcomes : SendWait(IOChan, o)
  \/ \E o \in SendOutcomes : SendTo(IOChan, o)
  \/ NextCall(IOChan)
  \/ \E o \in WaitOutcomes : NextWait(IOChan, o)
  \/ \E o \in RecvOutcomes : RecvFrom(IOChan, o)

SpecIO == Init /\ [][NextIO]_vars

(* ------------- one channel that stays open, and its calls ------------- *)
\* both halves are kept and have a timeout: the sender is called with
\* every kind of dst (None, the channel's interface, another interface) on
\* channels whose write buffer is shorter and longer than the frames, the
\* receiver reads frames of one length; a transmit or read that was issued
\* returns, in the end, something else than an interruption
NextCalls ==
  \/ \E size \in {0, MaxBufLen}, fault \in Faults :
       channel(IOChan, [index |-> 2, mac |-> Mac1],
               [BaseConfig EXCEPT !.write_buffer_size = size, !.read_buffer_size = 15,
                                  !.read_timeout = SomeDuration(10),
                                  !.write_timeout = SomeDuration(10)], fault)
  \/ Deliver(IOChan, Frame(14, 1))
  \/ TxQueue(IOChan)
  \/ \E packet \in Packets, dst \in {NoInterface} \cup NetworkInterfaces :
       SendCall(IOChan, packet, dst)
  \/ \E o \in WaitOutcomes : SendWait(IOChan, o)
  \/ \E o \in SendOutcomes : SendTo(IOChan, o)
  \/ NextCall(IOChan)
  \/ \E o \in WaitOutcomes : NextWait(IOChan, o)
  \/ \E o \in RecvOutcomes : RecvFrom(IOChan, o)

SpecCalls ==
  /\ Init /\ [][NextCalls]_vars
  /\ WF_vars(\E o \in SendOutcomes \ {"EINTR"} : SendTo(IOChan, o))
  /\ WF_vars(\E o \in RecvOutcomes \ {"EINTR"} : RecvFrom(IOChan, o))

(* ---------------- the Ethernet constructors on a buffer ---------------- *)
\* buffers from empty to MaxBufLen bytes, around the 14-byte header
EthBuffers == {Frame(n, t) : n \in 0..MaxBufLen, t \in {0, 255}}

CallEthernetPacket_new ==
  /\ eth_op' = "EthernetPacket::new"
  /\ eth_view' = EthernetPacket_new(eth_buffer)
  /\ UNCHANGED <<lifeVars, ioVars, codecVars, eth_buffer>>

CallEthernetPacket_owned ==
  /\ eth_op' = "EthernetPacket::owned"
  /\ eth_view' = EthernetPacket_owned(eth_buffer)
  /\ UNCHANGED <<lifeVars, ioVars, codecVars, eth_buffer>>

CallMutableEthernetPacket_new ==
  /\ eth_op' = "MutableEthernetPacket::new"
  /\ eth_view' = MutableEthernetPacket_new(eth_buffer)
  /\ UNCHANGED <<lifeVars, ioVars, codecVars, eth_buffer>>

CallMutableEthernetPacket_owned ==
  /\ eth_op' = "MutableEthernetPacket::owned"
  /\ eth_view' = MutableEthernetPacket_owned(eth_buffer)
  /\ UNCHANGED <<lifeVars, ioVars, codecVars, eth_buffer>>

InitEth ==
  /\ fdtab = [f \in Fds |-> 0]
  /\ trace = [c \in Chans |-> <<>>]
  /\ opencall = [c \in Chans |-> NoCall]
  /\ chanres = [c \in Chans |-> NoRes]
  /\ sock = [c \in Chans |-> NoSock]
  /\ strong = [c \in Chans |-> 0]
  /\ pc = [c \in Chans |-> [h \in Halves |-> "none"]]
  /\ badClose = FALSE
  /\ badUse = FALSE
  /\ fd_set = [c \in Chans |-> [h \in Halves |-> FALSE]]
  /\ timeout = [c \in Chans |-> [h \in Halves |-> NoTimespec]]
  /\ read_buffer = [c \in Chans |-> <<>>]
  /\ write_buffer = [c \in Chans |-> <<>>]
  /\ backlog = [c \in Chans |-> <<>>]
  /\ writable = [c \in Chans |-> FALSE]
  /\ call = [c \in Chans |-> [h \in Halves |-> NoCallIO]]
  /\ res = [c \in Chans |-> [h \in Halves |-> NoIO]]
  /\ sent = [c \in Chans |-> NoSent]
  /\ eth_buffer \in EthBuffers
  /\ eth_op = "none"
  /\ eth_view = NoView
  /\ pkt_call = NoPktCall
  /\ pkt_mem = <<>>
  /\ arp_buffer = <<>>
  /\ arp_call = NoArpCall
  /\ frame = NoFrame

NextEth ==
  \/ CallEthernetPacket_new
  \/ CallEthernetPacket_owned
  \/ CallMutableEthernetPacket_new
  \/ CallMutableEthernetPacket_owned

SpecEth == InitEth /\ [][NextEth]_vars

(* ---------------- the operations of an Ethernet view ---------------- *)
\* how far past the end of a buffer the callers' payloads reach
MaxOver == 2
\* the addresses the callers write: broadcast, and 28:ef:f9:5f:8e:2b
MacAddrs == {<<255, 255, 255, 255, 255, 255>>, <<40, 239, 249, 95, 142, 43>>}

\* a call on the view is possible: there is a view, and the thread has not
\* panicked or been killed
ViewLive == eth_view.some /\ ~pkt_call.panic /\ ~pkt_call.signal

\* the view's bytes are the buffer's
Store(bytes) ==
  /\ eth_view' = [eth_view EXCEPT !.bytes = bytes]
  /\ eth_buffer' = bytes

CallPayload ==
  /\ ViewLive
  /\ pkt_call' = [NoPktCall EXCEPT !.op = "payload", !.pre = eth_view.bytes, !.mem = pkt_mem,
                                   !.ret = payload(eth_view.bytes)]
  /\ UNCHANGED <<lifeVars, ioVars, ethVars, pkt_mem, arp_buffer, arp_call, frame>>

\* the setters are called with a caller's value or with the value a getter
\* has just returned
CallSet_destination(val) ==
  /\ ViewLive /\ eth_view.mutable
  /\ Store(set_destination(eth_view.bytes, val))
  /\ pkt_call' = [NoPktCall EXCEPT !.op = "set_destination", !.pre = eth_view.bytes,
                                   !.mem = pkt_mem, !.arg = val]
  /\ UNCHANGED <<lifeVars, ioVars, eth_op, pkt_mem, arp_buffer, arp_call, frame>>

CallSet_source(val) ==
  /\ ViewLive /\ eth_view.mutable
  /\ Store(set_source(eth_view.bytes, val))
  /\ pkt_call' = [NoPktCall EXCEPT !.op = "set_source", !.pre = eth_view.bytes,
                                   !.mem = pkt_mem, !.arg = val]
  /\ UNCHANGED <<lifeVars, ioVars, eth_op, pkt_mem, arp_buffer, arp_call, frame>>

CallSet_ethertype(val) ==
  /\ ViewLive /\ eth_view.mutable
  /\ Store(set_ethertype(eth_view.bytes, val))
  /\ pkt_call' = [NoPktCall EXCEPT !.op = "set_ethertype", !.pre = eth_view.bytes,
                                   !.mem = pkt_mem, !.arg = val]
  /\ UNCHANGED <<lifeVars, ioVars, eth_op, pkt_mem, arp_buffer, arp_call, frame>>

CallSet_payload(vals, outcome) ==
  /\ ViewLive /\ eth_view.mutable
  /\ Len(vals) <= Len(eth_view.bytes) - 14 + Len(pkt_mem)
  /\ Len(vals) <= Len(eth_view.bytes) - 14 => outcome = "overrun"
  /\ \E out \in {set_payload(eth_view.bytes, pkt_mem, vals, outcome)} :
       /\ Store(out.packet)
       /\ pkt_mem' = out.mem
       /\ pkt_call' = [NoPktCall EXCEPT !.op = "set_payload", !.pre = eth_view.bytes,
                                        !.mem = pkt_mem, !.arg = vals,
                                        !.panic = out.panic, !.signal = out.signal]
  /\ UNCHANGED <<lifeVars, ioVars, eth_op, arp_buffer, arp_call, frame>>

CallClone_from(other) ==
  /\ ViewLive /\ eth_view.mutable
  /\ \E out \in {clone_from(eth_view.bytes, other)} :
       /\ Store(out.packet)
       /\ pkt_call' = [NoPktCall EXCEPT !.op = "clone_from", !.pre = eth_view.bytes,
                                        !.mem = pkt_mem, !.arg = other, !.panic = out.panic]
  /\ UNCHANGED <<lifeVars, ioVars, eth_op, pkt_mem, arp_buffer, arp_call, frame>>

\* the channels are idle
ChannelsIdle ==
  /\ fdtab = [f \in Fds |-> 0]
  /\ trace = [c \in Chans |-> <<>>]
  /\ opencall = [c \in Chans |-> NoCall]
  /\ chanres = [c \in Chans |-> NoRes]
  /\ sock = [c \in Chans |-> NoSock]
  /\ strong = [c \in Chans |-> 0]
  /\ pc = [c \in Chans |-> [h \in Halves |-> "none"]]
  /\ badClose = FALSE
  /\ badUse = FALSE
  /\ fd_set = [c \in Chans |-> [h \in Halves |-> FALSE]]
  /\ timeout = [c \in Chans |-> [h \in Halves |-> NoTimespec]]
  /\ read_buffer = [c \in Chans |-> <<>>]
  /\ write_buffer = [c \in Chans |-> <<>>]
  /\ backlog = [c \in Chans |-> <<>>]
  /\ writable = [c \in Chans |-> FALSE]
  /\ call = [c \in Chans |-> [h \in Halves |-> NoCallIO]]
  /\ res = [c \in Chans |-> [h \in Halves |-> NoIO]]
  /\ sent = [c \in Chans |-> NoSent]

\* a view, mutable or not, over a buffer of at least 14 bytes, followed in
\* memory by MaxOver bytes of something else. The setters are called with
\* a caller's value or the value a getter returns; the payloads go from
\* empty to MaxOver bytes more than the longest buffer holds; the packets
\* cloned from are shorter, as long as and longer than the longest buffer.
InitPkt ==
  /\ ChannelsIdle
  /\ eth_buffer \in {b \in EthBuffers : Len(b) >= 14}
  /\ eth_op \in {"EthernetPacket::new", "MutableEthernetPacket::new"}
  /\ eth_view = IF eth_op = "EthernetPacket::new" THEN EthernetPacket_new(eth_buffer)
                                                  ELSE MutableEthernetPacket_new(eth_buffer)
  /\ pkt_call = NoPktCall
  /\ pkt_mem = Frame(MaxOver, 5)
  /\ arp_buffer = <<>>
  /\ arp_call = NoArpCall
  /\ frame = NoFrame

NextPkt ==
  \/ CallPayload
  \/ \E val \in MacAddrs \cup {get_destination(eth_view.bytes)} : CallSet_destination(val)
  \/ \E val \in MacAddrs \cup {get_source(eth_view.bytes)} : CallSet_source(val)
  \/ \E val \in {EtherType_new(EtherTypes_Arp), EtherType_new(43981),
                  get_ethertype(eth_view.bytes)} : CallSet_ethertype(val)
  \/ \E n \in 0..(MaxBufLen - 14 + MaxOver), outcome \in {"overrun", "fault"} :
       CallSet_payload(Frame(n, 9), outcome)
  \/ \E n \in {14, MaxBufLen, MaxBufLen + 1} : CallClone_from(Frame(n, 7))

SpecPkt == InitPkt /\ [][NextPkt]_vars

(* ----------------------- the ARP field layout ----------------------- *)
\* the four ranges for one pair of declared lengths, computed once
CallFields(hl, pl) ==
  /\ arp_call.op = "none"
  /\ arp_call' = [NoArpCall EXCEPT !.op = "fields", !.arg = <<hl, pl>>,
                                   !.fields = <<SHA(hl, pl), SPA(hl, pl), THA(hl, pl), TPA(hl, pl)>>]
  /\ UNCHANGED <<lifeVars, ioVars, ethVars, pkt_call, pkt_mem, arp_buffer, frame>>

(* --------------------- the open enumerations --------------------- *)
\* one code is decoded, and the variant encoded again
CallProtocol(c) ==
  /\ arp_call.op = "none"
  /\ arp_call' = [NoArpCall EXCEPT !.op = "Protocol", !.arg = <<c>>,
                                   !.variant = Protocol_from(c),
                                   !.code = u16_from_Protocol(Protocol_from(c))]
  /\ UNCHANGED <<lifeVars, ioVars, ethVars, pkt_call, pkt_mem, arp_buffer, frame>>

CallHardware(c) ==
  /\ arp_call.op = "none"
  /\ arp_call' = [NoArpCall EXCEPT !.op = "Hardware", !.arg = <<c>>,
                                   !.variant = Hardware_from(c),
                                   !.code = u16_from_Hardware(Hardware_from(c))]
  /\ UNCHANGED <<lifeVars, ioVars, ethVars, pkt_call, pkt_mem, arp_buffer, frame>>

CallOperation(c) ==
  /\ arp_call.op = "none"
  /\ arp_call' = [NoArpCall EXCEPT !.op = "Operation", !.arg = <<c>>,
                                   !.variant = Operation_from(c),
                                   !.code = u16_from_Operation(Operation_from(c))]
  /\ UNCHANGED <<lifeVars, ioVars, ethVars, pkt_call, pkt_mem, arp_buffer, frame>>

\* a caller builds Unknown(c) of the enumeration named by enum by hand, and
\* the variant is encoded and the code decoded again
CallUnknown(enum, c) ==
  /\ arp_call.op = "none"
  /\ \E code \in {CASE enum = "Protocol" -> u16_from_Protocol(Unknown(c))
                     [] enum = "Hardware" -> u16_from_Hardware(Unknown(c))
                     [] enum = "Operation" -> u16_from_Operation(Unknown(c))} :
       arp_call' = [NoArpCall EXCEPT !.op = "Unknown", !.res = enum, !.arg = <<c>>,
                                     !.code = code,
                                     !.variant = CASE enum = "Protocol" -> Protocol_from(code)
                                                   [] enum = "Hardware" -> Hardware_from(code)
                                                   [] enum = "Operation" -> Operation_from(code)]
  /\ UNCHANGED <<lifeVars, ioVars, ethVars, pkt_call, pkt_mem, arp_buffer, frame>>

\* the pure functions of the ARP codec, each applied once: the layout to
\* every pair of u8 lengths, the enumerations to every u16 code
NextArpPure ==
  \/ arp_call.op = "none" /\ \E hl \in 0..u8_MAX, pl \in 0..u8_MAX : CallFields(hl, pl)
  \/ arp_call.op = "none" /\ \E c \in 0..u16_MAX : CallProtocol(c)
  \/ arp_call.op = "none" /\ \E c \in 0..u16_MAX : CallHardware(c)
  \/ arp_call.op = "none" /\ \E c \in 0..u16_MAX : CallOperation(c)
  \/ arp_call.op = "none" /\ \E enum \in {"Protocol", "Hardware", "Operation"}, c \in 0..u16_MAX :
       CallUnknown(enum, c)

SpecArpPure == Init /\ [][NextArpPure]_vars

(* -------------------- the operations of an ARP Packet -------------------- *)
\* the longest address the buffers declare and hold
MaxAddrLen == 2
\* buffers from empty to one byte more than the largest short packet; the
\* lengths they declare are the short ones and the largest a byte can hold
ArpBuffers ==
  {[i \in 1..n |-> IF i = HLEN + 1 THEN hl ELSE IF i = PLEN + 1 THEN pl ELSE 0] :
     n \in 0..(OPER.end + 4 * MaxAddrLen + 1),
     hl \in (0..MaxAddrLen) \cup {u8_MAX}, pl \in (0..MaxAddrLen) \cup {u8_MAX}}

\* Packet::new_checked: new_unchecked, then check_len()?
CallNew_checked ==
  /\ ~arp_call.panic
  /\ \E out \in {check_len(arp_buffer)} :
       arp_call' = [NoArpCall EXCEPT !.op = "new_checked", !.pre = arp_buffer,
                                     !.res = out.res, !.reads = out.reads, !.panic = out.panic,
                                     !.checked = IF out.res = "Ok" THEN "ok" ELSE "no",
                                     !.was = arp_call.checked]
  /\ UNCHANGED <<lifeVars, ioVars, ethVars, pkt_call, pkt_mem, arp_buffer, frame>>

\* a setter called with value left the buffer as out.bytes; a thread that
\* panicked calls nothing more
ArpPut(op, value, out) ==
  /\ ~arp_call.panic
  /\ arp_buffer' = out.bytes
  /\ arp_call' = [NoArpCall EXCEPT !.op = op, !.pre = arp_buffer, !.arg = value,
                                   !.panic = out.panic, !.checked = arp_call.checked]
  /\ UNCHANGED <<lifeVars, ioVars, ethVars, pkt_call, pkt_mem, frame>>

CallSet_source_hardware_addr(value) ==
  ArpPut("set_source_hardware_addr", value, set_source_hardware_addr(arp_buffer, value))

CallSet_source_protocol_addr(value) ==
  ArpPut("set_source_protocol_addr", value, set_source_protocol_addr(arp_buffer, value))

CallSet_target_hardware_addr(value) ==
  ArpPut("set_target_hardware_addr", value, set_target_hardware_addr(arp_buffer, value))

CallSet_target_protocol_addr(value) ==
  ArpPut("set_target_protocol_addr", value, set_target_protocol_addr(arp_buffer, value))

\* set_hardware_len / set_protocol_len: data[HLEN] = value, which panics on
\* a buffer that does not reach the byte; what check_len said of the packet
\* holds no longer. The lengths are declared before the addresses are
\* written, as create() and send_arp_packet do: the calls are made on a
\* packet whose address bytes are still as allocated.
CallSet_hardware_len(value) ==
  /\ ~arp_call.panic /\ arp_buffer \in ArpBuffers
  /\ arp_buffer' = IF Len(arp_buffer) <= HLEN THEN arp_buffer
                                               ELSE set_hardware_len(arp_buffer, value)
  /\ arp_call' = [NoArpCall EXCEPT !.op = "set_hardware_len", !.pre = arp_buffer,
                                   !.arg = <<value>>, !.panic = Len(arp_buffer) <= HLEN,
                                   !.checked = IF arp_call.checked = "no" THEN "no" ELSE "stale"]
  /\ UNCHANGED <<lifeVars, ioVars, ethVars, pkt_call, pkt_mem, frame>>

CallSet_protocol_len(value) ==
  /\ ~arp_call.panic /\ arp_buffer \in ArpBuffers
  /\ arp_buffer' = IF Len(arp_buffer) <= PLEN THEN arp_buffer
                                               ELSE set_protocol_len(arp_buffer, value)
  /\ arp_call' = [NoArpCall EXCEPT !.op = "set_protocol_len", !.pre = arp_buffer,
                                   !.arg = <<value>>, !.panic = Len(arp_buffer) <= PLEN,
                                   !.checked = IF arp_call.checked = "no" THEN "no" ELSE "stale"]
  /\ UNCHANGED <<lifeVars, ioVars, ethVars, pkt_call, pkt_mem, frame>>

\* the nine accessors called one after the other: hardware_type,
\* protocol_type, hardware_len, protocol_len and operation index the header
\* and panic on a buffer that does not reach their bytes; ret holds what the
\* four address accessors return
CallAccessors ==
  /\ ~arp_call.panic
  /\ LET n == Len(arp_buffer)
         header == n < HTYPE.end \/ n < PTYPE.end \/ n <= HLEN \/ n <= PLEN \/ n < OPER.end
         ret == <<source_hardware_addr(arp_buffer), source_protocol_addr(arp_buffer),
                  target_hardware_addr(arp_buffer), target_protocol_addr(arp_buffer)>>
     IN arp_call' = [NoArpCall EXCEPT !.op = "accessors", !.pre = arp_buffer, !.ret = ret,
                                      !.panic = header \/ \E i \in 1..4 : ret[i].panic,
                                      !.checked = arp_call.checked]
  /\ UNCHANGED <<lifeVars, ioVars, ethVars, pkt_call, pkt_mem, arp_buffer, frame>>

\* Packet::new_unchecked over a buffer of any length; the addresses written
\* are of every length up to one more than MaxAddrLen, each setter with
\* bytes of its own, so that a byte tells which setter wrote it
InitArp ==
  /\ ChannelsIdle
  /\ eth_buffer = <<>>
  /\ eth_op = "none"
  /\ eth_view = NoView
  /\ pkt_call = NoPktCall
  /\ pkt_mem = <<>>
  /\ arp_buffer \in ArpBuffers
  /\ arp_call = NoArpCall
  /\ frame = NoFrame

NextArp ==
  \/ CallNew_checked
  \/ \E n \in 0..(MaxAddrLen + 1) : CallSet_source_hardware_addr(Frame(n, 1))
  \/ \E n \in 0..(MaxAddrLen + 1) : CallSet_source_protocol_addr(Frame(n, 2))
  \/ \E n \in 0..(MaxAddrLen + 1) : CallSet_target_hardware_addr(Frame(n, 3))
  \/ \E n \in 0..(MaxAddrLen + 1) : CallSet_target_protocol_addr(Frame(n, 4))
  \/ \E value \in (0..MaxAddrLen) \cup {u8_MAX} : CallSet_hardware_len(value)
  \/ \E value \in (0..MaxAddrLen) \cup {u8_MAX} : CallSet_protocol_len(value)
  \/ CallAccessors

SpecArp == InitArp /\ [][NextArp]_vars

(* ------------------ the construction of an ARP request ------------------ *)
\* the values handed to the setters. send_arp_packet hands its target_mac
\* to set_destination and to the target hardware address alike; here the
\* destination is a value of its own, so that its frames are the ones with
\* destination = target_mac. The ARP part is written with the setters of
\* Packet, on the 28-byte buffer send_arp_packet allocates.
\* the next call of the sequence: the two buffers after it
BuildStep ==
  /\ frame.pc < 15 /\ ~frame.panic
  /\ LET k == frame.pc + 1
         a == CASE k = 11 -> set_source_hardware_addr(arp_buffer, frame.source_mac)
                [] k = 12 -> set_source_protocol_addr(arp_buffer, frame.source_ip)
                [] k = 13 -> set_target_hardware_addr(arp_buffer, frame.target_mac)
                [] k = 14 -> set_target_protocol_addr(arp_buffer, frame.target_ip)
                [] OTHER -> Returned(arp_buffer)
         p == IF k = 15 THEN set_payload(eth_buffer, <<>>, arp_buffer, "fault")
              ELSE [packet |-> eth_buffer, mem |-> <<>>, panic |-> FALSE, signal |-> FALSE]
     IN /\ frame' = [frame EXCEPT !.pc = k, !.panic = a.panic \/ p.signal]
        /\ eth_buffer' =
             CASE k = 1 -> Zeros(42)
               [] k = 2 -> set_destination(eth_buffer, frame.destination)
               [] k = 3 -> set_source(eth_buffer, frame.source_mac)
               [] k = 4 -> set_ethertype(eth_buffer, EtherType_new(EtherTypes_Arp))
               [] k = 15 -> p.packet
               [] OTHER -> eth_buffer
        /\ arp_buffer' =
             CASE k = 5 -> Zeros(28)
               [] k = 6 -> set_hardware_type(arp_buffer, Variant("Ethernet"))
               [] k = 7 -> set_protocol_type(arp_buffer, Variant("Ipv4"))
               [] k = 8 -> set_hardware_len(arp_buffer, 6)
               [] k = 9 -> set_protocol_len(arp_buffer, 4)
               [] k = 10 -> set_operation(arp_buffer, Operation_from(1))
               [] OTHER -> a.bytes
  /\ eth_op' = "MutableEthernetPacket::new"
  /\ eth_view' = MutableEthernetPacket_new(eth_buffer')
  /\ UNCHANGED <<lifeVars, ioVars, pkt_call, pkt_mem, arp_call>>

\* the finished frame is read back: the Ethernet getters on its bytes, the
\* getters of Packet on its payload
Parse ==
  /\ frame.pc = 15 /\ ~frame.panic
  /\ LET data == payload(eth_view.bytes)
     IN frame' = [frame EXCEPT !.pc = 16,
                    !.parsed = [destination |-> get_destination(eth_view.bytes),
                                source |-> get_source(eth_view.bytes),
                                ethertype |-> get_ethertype(eth_view.bytes),
                                hardware_type |-> hardware_type(data),
                                protocol_type |-> protocol_type(data),
                                hardware_len |-> hardware_len(data),
                                protocol_len |-> protocol_len(data),
                                operation |-> operation(data),
                                source_hardware_addr |-> source_hardware_addr(data).bytes,
                                source_protocol_addr |-> source_protocol_addr(data).bytes,
                                target_hardware_addr |-> target_hardware_addr(data).bytes,
                                target_protocol_addr |-> target_protocol_addr(data).bytes]]
  /\ UNCHANGED <<lifeVars, ioVars, ethVars, pkt_call, pkt_mem, arp_buffer, arp_call>>

InitFrame ==
  /\ ChannelsIdle
  /\ eth_buffer = <<>>
  /\ eth_op = "none"
  /\ eth_view = NoView
  /\ pkt_call = NoPktCall
  /\ pkt_mem = <<>>
  /\ arp_buffer = <<>>
  /\ arp_call = NoArpCall
  /\ \E d \in MacAddrs, si \in {<<192, 168, 0, 102>>, <<10, 0, 0, 1>>},
        tm \in {<<0, 0, 0, 0, 0, 0>>, <<255, 255, 255, 255, 255, 255>>},
        ti \in {<<192, 168, 0, 101>>, <<10, 0, 0, 254>>} :
       frame = [NoFrame EXCEPT !.destination = d, !.source_mac = <<40, 239, 249, 95, 142, 43>>,
                               !.source_ip = si,
                               !.target_mac = tm, !.target_ip = ti]

NextFrame ==
  \/ BuildStep
  \/ Parse

SpecFrame == InitFrame /\ [][NextFrame]_vars

(* ------------------------------- claims ------------------------------- *)
\* close() calls issued for the slot's latest channel
closes(c) == Cardinality({i \in DOMAIN trace[c] : trace[c][i].call = "close"})
\* the half exists: created by channel() and not yet dropped
HalfExists(c, h) == pc[c][h] \in {"idle", "wait", "io"}
\* the setup syscalls of the slot's latest channel() call, in order
SetupCalls(c) == SelectSeq(trace[c], LAMBDA e : e.call # "close")

\* C1: the descriptor of a successfully opened channel is closed exactly
\* once, when the last of its two halves is dropped: it is open and no
\* close has been issued while a half exists, no close ever hits a
\* descriptor that is not the channel's open socket, at most one close is
\* issued, and once both halves are gone the close has been issued and the
\* descriptor is no longer the channel's.
C1_ClosedExactlyOnce ==
  /\ ~badClose
  /\ \A c \in Chans : chanres[c].kind = "Ok" =>
       /\ closes(c) <= 1
       /\ (\E h \in Halves : HalfExists(c, h)) => (closes(c) = 0 /\ SocketOpen(c))
       /\ (\A h \in Halves : pc[c][h] = "gone") => (closes(c) = 1 /\ ~SocketOpen(c))
       /\ closes(c) = 1 => \A h \in Halves : pc[c][h] = "gone"

\* C1 witness: two channels were opened, one has lost both halves and its
\* descriptor, the other still has a half and its descriptor
C1_Witness ==
  \E c, d \in Chans :
    /\ c # d
    /\ chanres[c].kind = "Ok" /\ (\A h \in Halves : pc[c][h] = "gone") /\ closes(c) = 1
    /\ chanres[d].kind = "Ok" /\ pc[d]["tx"] = "gone" /\ pc[d]["rx"] = "idle" /\ SocketOpen(d)

\* C2: a channel() call in which socket(), bind(), the membership request
\* or the switch to non-blocking fails returns the errno of that step (the
\* last setup call issued, and the only one that failed), creates no half,
\* and leaves no descriptor of the call open; an interface index that names
\* no interface fails at bind.
C2_FailedOpenLeavesNothing ==
  \A c \in Chans : chanres[c].kind = "Err" =>
    LET setup == SetupCalls(c)
        last == setup[Len(setup)]
    IN /\ Len(setup) >= 1
       /\ last.ret = -1 /\ last.errno = chanres[c].err
       /\ last.call = <<"socket", "bind", "setsockopt", "fcntl">>[Len(setup)]
       /\ \A i \in 1..(Len(setup) - 1) : setup[i].ret # -1
       /\ \A h \in Halves : pc[c][h] = "none"
       /\ \A f \in Fds : fdtab[f] # c
       /\ setup[1].ret # -1 =>
            /\ closes(c) = 1
            /\ trace[c][Len(trace[c])] = [call |-> "close", fd |-> setup[1].fd, ret |-> 0, errno |-> ""]
       /\ (opencall[c].network_interface.index \notin ExistingIndexes /\ setup[1].ret # -1)
            => last.call = "bind"

\* C2 witness: a call on an interface index that names no interface failed
\* at bind after its socket had been created
C2_Witness ==
  \E c \in Chans :
    /\ chanres[c] = [kind |-> "Err", err |-> "ENODEV"]
    /\ opencall[c].network_interface.index \notin ExistingIndexes
    /\ Len(trace[c]) = 3 /\ trace[c][2].call = "bind" /\ trace[c][2].ret = -1

\* C5 (as claimed): the socket a channel() call creates follows
\* config.channel_type: Layer2 gives a SOCK_RAW socket with protocol
\* htons(0x0003), Layer3(e) gives a SOCK_DGRAM socket with protocol
\* htons(e), and the bind address carries the same protocol.
C5_SocketFollowsChannelType ==
  \A c \in Chans : sock[c].fd # 0 =>
    LET t == opencall[c].config.channel_type
    IN /\ t.tag = "Layer2" => (sock[c].typ = SOCK_RAW /\ sock[c].protocol = 768)
       /\ t.tag = "Layer3" =>
            (sock[c].typ = SOCK_DGRAM
               /\ sock[c].protocol = (t.ethertype % 256) * 256 + t.ethertype \div 256)
       /\ sock[c].sll_protocol = sock[c].protocol

\* C3 (as claimed): a next() call that has returned ended in success,
\* OS-error or timed-out; it never panics.
C3_NextHasThreeOutcomes ==
  \A c \in Chans :
    (pc[c]["rx"] = "idle" /\ call[c]["rx"].wait # "none")
      => res[c]["rx"].kind \in {"Ok", "Err", "TimedOut"}

\* C4 (as claimed): no send_to and no next() returns the interruption
\* (EINTR) of its readiness wait to the caller.
C4_InterruptedWaitNotSurfaced ==
  \A c \in Chans, h \in Halves :
    ~(call[c][h].wait = "error" /\ res[c][h].kind = "Err" /\ res[c][h].err = "EINTR")

\* C6 (as claimed): on a channel with a read timeout, a next() call that
\* has returned and during which no datagram was queued returned
\* timed-out.  (Calls whose wait failed with an OS error other than an
\* interruption are left out: the claim is about waits that run their time.)
C6_IdleNextTimesOut ==
  \A c \in Chans :
    ( /\ pc[c]["rx"] = "idle" /\ call[c]["rx"].wait # "none"
      /\ timeout[c]["rx"].some
      /\ ~call[c]["rx"].arrived
      /\ ~(res[c]["rx"].kind = "Err" /\ res[c]["rx"].err # "EINTR") )
      => res[c]["rx"].kind = "TimedOut"

\* C7: the view a successful next() yields has exactly as many bytes as the
\* read returned, which is at most read_buffer_size; its bytes are that
\* prefix of the read buffer, which are the bytes received.
C7_ViewIsWhatWasRead ==
  \A c \in Chans : res[c]["rx"].kind = "Ok" =>
    LET k == call[c]["rx"]
        view == res[c]["rx"].view
    IN /\ k.len <= opencall[c].config.read_buffer_size
       /\ Len(read_buffer[c]) = opencall[c].config.read_buffer_size
       /\ Len(view) = k.len
       /\ \A i \in 1..k.len : view[i] = read_buffer[c][i] /\ view[i] = k.dgram[i]

\* C7 witness: next() yielded a 14-byte view out of a 15-byte read buffer
\* whose last byte still holds a byte of an earlier, longer frame
C7_Witness ==
  \E c \in Chans :
    /\ res[c]["rx"].kind = "Ok" /\ Len(res[c]["rx"].view) = 14
    /\ Len(read_buffer[c]) = 15 /\ read_buffer[c][15] = 2

\* C8: send_to transmits only after its wait reported the descriptor
\* writable; a wait that elapsed returned timed-out and a wait that failed
\* returned the OS error, both without a transmit; a send_to that has
\* returned returned success, OS-error or timed-out.
C8_TransmitOnlyWhenWritable ==
  \A c \in Chans :
    LET k == call[c]["tx"]
        r == res[c]["tx"]
    IN /\ (pc[c]["tx"] = "io" \/ k.issued) => k.wait = "ready"
       /\ k.wait = "timeout" => (r.kind = "TimedOut" /\ ~k.issued /\ pc[c]["tx"] = "idle")
       /\ k.wait = "error" => (r.kind = "Err" /\ ~k.issued /\ pc[c]["tx"] = "idle")
       /\ (pc[c]["tx"] = "idle" /\ k.wait # "none") => r.kind \in {"Ok", "Err", "TimedOut"}
       /\ r.kind = "Ok" => (k.wait = "ready" /\ sent[c].bytes = k.packet)

\* C8 witnesses: a send_to timed out without transmitting; (second) a
\* send_to transmitted after a wait that reported writable
C8_Witness ==
  \E c \in Chans :
    /\ res[c]["tx"].kind = "TimedOut" /\ ~call[c]["tx"].issued
    /\ sent[c].bytes # <<>>

\* C9: with the two halves on two threads, in every interleaving of their
\* drops and calls no wait, transmit or read is issued on a descriptor that
\* is not the channel's open socket, a half inside a call has the socket
\* open, and the descriptor is closed once: never twice, never a stranger's,
\* and closed when both halves are gone.
C9_ConcurrentDropClosesOnce ==
  /\ ~badUse
  /\ ~badClose
  /\ \A c \in Chans :
       /\ (\E h \in Halves : pc[c][h] \in {"wait", "io"}) => (SocketOpen(c) /\ closes(c) = 0)
       /\ chanres[c].kind = "Ok" => closes(c) <= 1
       /\ (chanres[c].kind = "Ok" /\ \A h \in Halves : pc[c][h] = "gone") => closes(c) = 1

\* C9 witness: the receiver is gone while the sender is inside its transmit
C9_Witness ==
  \E c \in Chans : pc[c]["rx"] = "gone" /\ pc[c]["tx"] = "io" /\ call[c]["tx"].interrupts > 0

\* C10: each of the four constructors returns a view exactly when the
\* buffer holds at least 14 bytes, the view is over the whole buffer, and
\* so every view is backed by at least 14 bytes.
C10_ViewIffFourteenBytes ==
  eth_op # "none" =>
    /\ eth_view.some <=> Len(eth_buffer) >= 14
    /\ eth_view.some => (eth_view.bytes = eth_buffer /\ Len(eth_view.bytes) >= 14)
    /\ eth_view.some =>
         /\ eth_view.mutable <=> eth_op \in {"MutableEthernetPacket::new", "MutableEthernetPacket::owned"}
         /\ eth_view.data = "Owned" <=> eth_op \in {"EthernetPacket::owned", "MutableEthernetPacket::owned"}

\* C10 witness: MutableEthernetPacket::owned accepted a buffer of exactly 14 bytes
C10_Witness ==
  /\ eth_op = "MutableEthernetPacket::owned"
  /\ Len(eth_buffer) = 14 /\ eth_view.some

\* C11: payload() of an Ethernet view, mutable or not, never fails; it
\* returns the empty sequence when the buffer is exactly 14 bytes long and
\* otherwise exactly the bytes from offset 14 to the end: the 14 header
\* bytes followed by the payload are the buffer.
C11_PayloadIsSuffix ==
  pkt_call.op = "payload" =>
    /\ ~pkt_call.panic /\ ~pkt_call.signal
    /\ Len(eth_view.bytes) = 14 => pkt_call.ret = <<>>
    /\ Len(pkt_call.ret) = Len(eth_view.bytes) - 14
    /\ SubSeq(eth_view.bytes, 1, 14) \o pkt_call.ret = eth_view.bytes
    /\ eth_view.bytes = pkt_call.pre

\* C11 witness: payload() was called on an immutable view over exactly 14 bytes
C11_Witness ==
  /\ pkt_call.op = "payload"
  /\ Len(eth_view.bytes) = 14 /\ ~eth_view.mutable /\ pkt_call.ret = <<>>

\* C12: for destination, source and ethertype, reading the field after a
\* write returns the value written, and writing back the value the getter
\* returned leaves the buffer as it was.
C12_SetGetRoundTrip ==
  /\ pkt_call.op = "set_destination" =>
       /\ get_destination(eth_view.bytes) = pkt_call.arg
       /\ pkt_call.arg = get_destination(pkt_call.pre) => eth_view.bytes = pkt_call.pre
  /\ pkt_call.op = "set_source" =>
       /\ get_source(eth_view.bytes) = pkt_call.arg
       /\ pkt_call.arg = get_source(pkt_call.pre) => eth_view.bytes = pkt_call.pre
  /\ pkt_call.op = "set_ethertype" =>
       /\ get_ethertype(eth_view.bytes) = pkt_call.arg
       /\ pkt_call.arg = get_ethertype(pkt_call.pre) => eth_view.bytes = pkt_call.pre

\* C12 witness: the ethertype read from a frame that carries the ARP code
\* was written back
C12_Witness ==
  /\ pkt_call.op = "set_ethertype"
  /\ pkt_call.arg = get_ethertype(pkt_call.pre)
  /\ pkt_call.arg = EtherType_new(EtherTypes_Arp)

C14_CloneFromChecked ==
  pkt_call.op = "clone_from" =>
    IF Len(pkt_call.arg) > Len(pkt_call.pre)
      THEN pkt_call.panic /\ eth_view.bytes = pkt_call.pre /\ pkt_mem = pkt_call.mem
      ELSE /\ ~pkt_call.panic
           /\ Len(eth_view.bytes) = Len(pkt_call.pre)
           /\ SubSeq(eth_view.bytes, 1, Len(pkt_call.arg)) = pkt_call.arg
           /\ \A i \in (Len(pkt_call.arg) + 1)..Len(pkt_call.pre) :
                eth_view.bytes[i] = pkt_call.pre[i]
           /\ pkt_mem = pkt_call.mem

\* C14 witness: a packet one byte longer than the destination was refused
C14_Witness ==
  /\ pkt_call.op = "clone_from"
  /\ Len(pkt_call.arg) = Len(pkt_call.pre) + 1 /\ pkt_call.panic

\* C15: for every hardware_len and protocol_len of a byte, the ranges SHA,
\* SPA, THA, TPA start at offset 8, follow one another without a gap or an
\* overlap in that order, have the lengths hardware_len, protocol_len,
\* hardware_len, protocol_len, and TPA ends at 8 + 2*hardware_len +
\* 2*protocol_len.
C15_FieldsContiguous ==
  arp_call.op = "fields" =>
    LET hl == arp_call.arg[1]
        pl == arp_call.arg[2]
        f == arp_call.fields
    IN /\ f[1].start = 8
       /\ \A i \in 1..3 : f[i].end = f[i + 1].start
       /\ \A i \in 1..4 : f[i].end - f[i].start = (IF i \in {1, 3} THEN hl ELSE pl)
       /\ \A i \in 1..4 : \A j \in (i + 1)..4 :
            (f[i].start..(f[i].end - 1)) \cap (f[j].start..(f[j].end - 1)) = {}
       /\ f[4].end = 8 + 2 * hl + 2 * pl

\* C15 witness: the ranges were computed for the two largest lengths
C15_Witness ==
  /\ arp_call.op = "fields"
  /\ arp_call.arg = <<255, 255>> /\ arp_call.fields[4].end = 1028

\* C16: check_len (called by new_checked) never panics and returns Ok exactly
\* when the buffer holds at least 8 bytes and at least 8 + 2*hardware_len
\* + 2*protocol_len bytes for the lengths stored at offsets 4 and 5, and
\* Truncated otherwise; a buffer shorter than 8 bytes is refused without a
\* read of the buffer.
C16_CheckLenExact ==
  arp_call.op = "new_checked" =>
    LET n == Len(arp_buffer)
    IN /\ ~arp_call.panic
       /\ arp_call.res \in {"Ok", "Truncated"}
       /\ arp_call.res = "Ok" <=>
            (n >= 8 /\ n >= 8 + 2 * arp_buffer[4 + 1] + 2 * arp_buffer[5 + 1])
       /\ n < 8 => arp_call.reads = {}

\* C16 witness: a buffer of exactly the declared size was accepted
C16_Witness ==
  /\ arp_call.op = "new_checked" /\ arp_call.res = "Ok"
  /\ Len(arp_buffer) >= 6
  /\ arp_buffer[4 + 1] > 0 /\ arp_buffer[5 + 1] > 0
  /\ Len(arp_buffer) = 8 + 2 * arp_buffer[4 + 1] + 2 * arp_buffer[5 + 1]

\* C17: on a packet that passes check_len, an address setter called with a
\* value of the declared length does not panic, the matching getter then
\* returns the value, and the 8 header bytes and the other three address
\* fields are as before.
C17_AddressWriteIsFramed ==
  (/\ arp_call.op \in {"set_source_hardware_addr", "set_source_protocol_addr",
                       "set_target_hardware_addr", "set_target_protocol_addr"}
   /\ check_len(arp_call.pre).res = "Ok"
   /\ Len(arp_call.arg) = (IF arp_call.op \in {"set_source_hardware_addr", "set_target_hardware_addr"}
                             THEN arp_call.pre[4 + 1] ELSE arp_call.pre[5 + 1]))
  =>
    /\ ~arp_call.panic
    /\ SubSeq(arp_buffer, 1, 8) = SubSeq(arp_call.pre, 1, 8)
    /\ Len(arp_buffer) = Len(arp_call.pre)
    /\ IF arp_call.op = "set_source_hardware_addr"
         THEN source_hardware_addr(arp_buffer) = Returned(arp_call.arg)
         ELSE source_hardware_addr(arp_buffer) = source_hardware_addr(arp_call.pre)
    /\ IF arp_call.op = "set_source_protocol_addr"
         THEN source_protocol_addr(arp_buffer) = Returned(arp_call.arg)
         ELSE source_protocol_addr(arp_buffer) = source_protocol_addr(arp_call.pre)
    /\ IF arp_call.op = "set_target_hardware_addr"
         THEN target_hardware_addr(arp_buffer) = Returned(arp_call.arg)
         ELSE target_hardware_addr(arp_buffer) = target_hardware_addr(arp_call.pre)
    /\ IF arp_call.op = "set_target_protocol_addr"
         THEN target_protocol_addr(arp_buffer) = Returned(arp_call.arg)
         ELSE target_protocol_addr(arp_buffer) = target_protocol_addr(arp_call.pre)

\* C17 witness: a new target hardware address was written into a checked
\* packet whose four fields are not empty
C17_Witness ==
  /\ arp_call.op = "set_target_hardware_addr" /\ ~arp_call.panic
  /\ check_len(arp_call.pre).res = "Ok"
  /\ arp_call.arg # <<>> /\ arp_call.pre[5 + 1] > 0
  /\ target_hardware_addr(arp_call.pre) # Returned(arp_call.arg)
  /\ target_hardware_addr(arp_buffer) = Returned(arp_call.arg)

\* C18: for Protocol, Hardware and Operation and every 16-bit code c, the
\* decoded variant encodes to c again; the named codes decode to their
\* named variant and every other code to Unknown(c).
C18_EnumRoundTrip ==
  /\ arp_call.op \in {"Protocol", "Hardware", "Operation"} =>
       /\ arp_call.code = arp_call.arg[1]
       /\ arp_call.variant.name # ""
  /\ arp_call.op = "Protocol" =>
       /\ arp_call.arg[1] = 2048 => arp_call.variant.name = "Ipv4"
       /\ arp_call.arg[1] = 2054 => arp_call.variant.name = "Arp"
       /\ arp_call.arg[1] = 34525 => arp_call.variant.name = "Ipv6"
       /\ arp_call.arg[1] \notin {2048, 2054, 34525} =>
            arp_call.variant = [name |-> "Unknown", other |-> arp_call.arg[1]]
  /\ arp_call.op = "Hardware" =>
       /\ arp_call.arg[1] = 1 => arp_call.variant.name = "Ethernet"
       /\ arp_call.arg[1] # 1 =>
            arp_call.variant = [name |-> "Unknown", other |-> arp_call.arg[1]]
  /\ arp_call.op = "Operation" =>
       /\ arp_call.arg[1] = 1 => arp_call.variant.name = "Request"
       /\ arp_call.arg[1] = 2 => arp_call.variant.name = "Reply"
       /\ arp_call.arg[1] \notin {1, 2} =>
            arp_call.variant = [name |-> "Unknown", other |-> arp_call.arg[1]]

\* C18 witness: an operation code that has no name went through Unknown
C18_Witness ==
  /\ arp_call.op = "Operation"
  /\ arp_call.arg = <<3>> /\ arp_call.variant = Unknown(3) /\ arp_call.code = 3

C20_YieldsInDeliveryOrder ==
  [][\A c \in Chans :
       /\ (pc[c]["rx"] = "io" /\ pc'[c]["rx"] = "idle" /\ res'[c]["rx"].kind = "Ok") =>
            /\ backlog[c] # <<>>
            /\ backlog'[c] = Tail(backlog[c])
            /\ res'[c]["rx"].view =
                 SubSeq(Head(backlog[c]), 1, Min({Len(Head(backlog[c])), Len(read_buffer[c])}))
       /\ backlog'[c] # backlog[c] =>
            \/ \E d \in Datagrams : backlog'[c] = Append(backlog[c], d)
            \/ backlog'[c] = <<>> /\ (sock'[c] # sock[c] \/ fdtab' # fdtab)
            \/ /\ backlog'[c] = Tail(backlog[c])
               /\ pc[c]["rx"] = "io" /\ pc'[c]["rx"] = "idle"
               /\ res'[c]["rx"].kind \in {"Ok", "panic"}
               /\ call'[c]["rx"].dgram = Head(backlog[c])
  ]_vars

\* C20 witness: next() returned the older of two different frames, and the
\* newer one is what the socket still holds
C20_Witness ==
  \E c \in Chans :
    /\ res[c]["rx"].kind = "Ok" /\ pc[c]["rx"] = "idle"
    /\ res[c]["rx"].view = Frame(14, 1)
    /\ call[c]["rx"].dgram = Frame(14, 1)
    /\ backlog[c] = <<Frame(16, 2)>>

\* C21: on a packet for which check_len has returned Ok, with no
\* set_hardware_len or set_protocol_len since (address setters may have been
\* called), the nine accessors do not panic, and the four address accessors
\* return hardware_len, protocol_len, hardware_len, protocol_len bytes, each
\* the bytes of a range that follows the one before from offset 8 and ends
\* inside the buffer.
C21_CheckedAccessorsInBounds ==
  (arp_call.op = "accessors" /\ arp_call.checked = "ok") =>
    LET hl == arp_buffer[4 + 1]
        pl == arp_buffer[5 + 1]
        start == <<8, 8 + hl, 8 + hl + pl, 8 + hl + pl + hl>>
        len == <<hl, pl, hl, pl>>
    IN /\ ~arp_call.panic
       /\ \A i \in 1..4 :
            /\ ~arp_call.ret[i].panic
            /\ Len(arp_call.ret[i].bytes) = len[i]
            /\ start[i] + len[i] <= Len(arp_buffer)
            /\ arp_call.ret[i].bytes = SubSeq(arp_buffer, start[i] + 1, start[i] + len[i])

\* C21 witness: the accessors were called on a checked packet with addresses
\* of two bytes, after a setter had written the target protocol address
C21_Witness ==
  /\ arp_call.op = "accessors" /\ arp_call.checked = "ok"
  /\ arp_buffer[4 + 1] = 2 /\ arp_buffer[5 + 1] = 2
  /\ arp_call.ret[4].bytes = <<4, 4>> /\ arp_call.ret[1].bytes = <<0, 0>>

\* C22: set_hardware_len and set_protocol_len store the value in the length
\* byte (offset 4, offset 5) and change nothing else, and a check_len called
\* after a successful check and a change of a length judges the buffer
\* against the lengths stored now: Truncated when 8 + 2*hardware_len +
\* 2*protocol_len exceeds the buffer length, Ok when it does not.
C22_CheckFollowsStoredLengths ==
  /\ (arp_call.op = "set_hardware_len" /\ ~arp_call.panic) =>
       arp_buffer = [arp_call.pre EXCEPT ![4 + 1] = arp_call.arg[1]]
  /\ (arp_call.op = "set_protocol_len" /\ ~arp_call.panic) =>
       arp_buffer = [arp_call.pre EXCEPT ![5 + 1] = arp_call.arg[1]]
  /\ (arp_call.op = "new_checked" /\ arp_call.was = "stale") =>
       /\ ~arp_call.panic
       /\ arp_call.res =
            IF 8 + 2 * arp_buffer[4 + 1] + 2 * arp_buffer[5 + 1] > Len(arp_buffer)
              THEN "Truncated" ELSE "Ok"

\* C22 witness: a packet that had passed the check was found truncated after
\* its hardware length had been raised to 255
C22_Witness ==
  /\ arp_call.op = "new_checked" /\ arp_call.was = "stale"
  /\ arp_call.res = "Truncated" /\ arp_buffer[4 + 1] = 255 /\ arp_buffer[5 + 1] = 0

\* C23: an address setter called with a value whose length is not the
\* declared hardware_len (for the two hardware addresses) or protocol_len
\* (for the two protocol addresses) panics and leaves the buffer as it was.
C23_WrongLengthPanics ==
  (/\ arp_call.op \in {"set_source_hardware_addr", "set_source_protocol_addr",
                       "set_target_hardware_addr", "set_target_protocol_addr"}
   /\ Len(arp_call.pre) > 5
   /\ Len(arp_call.arg) # (IF arp_call.op \in {"set_source_hardware_addr", "set_target_hardware_addr"}
                             THEN arp_call.pre[4 + 1] ELSE arp_call.pre[5 + 1]))
  => (arp_call.panic /\ arp_buffer = arp_call.pre)

\* C23 witness: a value one byte short of the declared protocol length was
\* refused on a packet that passes check_len
C23_Witness ==
  /\ arp_call.op = "set_source_protocol_addr" /\ arp_call.panic
  /\ check_len(arp_call.pre).res = "Ok"
  /\ arp_call.pre[5 + 1] = 2 /\ Len(arp_call.arg) = 1

\* C24 (as claimed): a wait of next() that returns while a datagram is
\* queued on the open socket, and a wait of send_to that returns while the
\* socket is writable, does not return timed-out, whatever the earlier calls
\* on the half returned.
C24_ReadyHalfDoesNotTimeOut ==
  [][\A c \in Chans :
       /\ (pc[c]["rx"] = "wait" /\ backlog[c] # <<>> /\ SocketOpen(c)) =>
            res'[c]["rx"].kind # "TimedOut"
       /\ (pc[c]["tx"] = "wait" /\ writable[c] /\ SocketOpen(c)) =>
            res'[c]["tx"].kind # "TimedOut"
  ]_vars

\* C25: the setup syscalls of a channel() call are socket, bind, the
\* membership request (setsockopt) and the switch to non-blocking (fcntl),
\* in that order and on the descriptor socket() returned; a call that failed
\* is the last one issued; the call returns Ok exactly when all four
\* succeeded; the two halves exist, or have existed, for such a call and for
\* no other; and the only syscalls after the setup are closes.
C25_SetupInOrder ==
  \A c \in Chans :
    LET setup == SetupCalls(c)
        order == <<"socket", "bind", "setsockopt", "fcntl">>
        done == Len(setup) = 4 /\ \A i \in 1..4 : setup[i].ret # -1
    IN /\ Len(setup) <= 4
       /\ \A i \in 1..Len(setup) : setup[i].call = order[i] /\ setup[i].fd = setup[1].fd
       /\ \A i \in 1..(Len(setup) - 1) : setup[i].ret # -1
       /\ SubSeq(trace[c], 1, Len(setup)) = setup
       /\ chanres[c].kind = "Ok" <=> done
       /\ (\E h \in Halves : pc[c][h] # "none") => done
       /\ chanres[c].kind = "Ok" => \A h \in Halves : pc[c][h] # "none"

\* C25 witness: one call stopped at the failed membership request, after
\* socket and bind, and made no half; another went through the four steps
\* and made its two halves
C25_Witness ==
  \E c, d \in Chans :
    /\ chanres[c].kind = "Err" /\ Len(SetupCalls(c)) = 3
    /\ SetupCalls(c)[3].call = "setsockopt" /\ SetupCalls(c)[3].ret = -1
    /\ \A h \in Halves : pc[c][h] = "none"
    /\ chanres[d].kind = "Ok" /\ Len(SetupCalls(d)) = 4
    /\ \A h \in Halves : pc[d][h] = "idle"

\* C26: on a mutable view set_destination changes offsets 0-5 only,
\* set_source offsets 6-11 only and set_ethertype offsets 12-13 only, the
\* high byte of the code at 12 and the low byte at 13; the length of the
\* buffer, every other byte of it (the payload included) and the memory
\* after it are as before the call.
C26_HeaderSettersAreFramed ==
  LET same(S) == /\ Len(eth_view.bytes) = Len(pkt_call.pre)
                 /\ \A i \in (1..Len(pkt_call.pre)) \ S : eth_view.bytes[i] = pkt_call.pre[i]
                 /\ pkt_mem = pkt_call.mem
                 /\ ~pkt_call.panic /\ ~pkt_call.signal
  IN /\ pkt_call.op = "set_destination" =>
          (same(1..6) /\ SubSeq(eth_view.bytes, 1, 6) = pkt_call.arg)
     /\ pkt_call.op = "set_source" =>
          (same(7..12) /\ SubSeq(eth_view.bytes, 7, 12) = pkt_call.arg)
     /\ pkt_call.op = "set_ethertype" =>
          /\ same(13..14)
          /\ eth_view.bytes[13] = pkt_call.arg[1] \div 256
          /\ eth_view.bytes[14] = pkt_call.arg[1] % 256

\* C26 witness: a new source address was written into a 16-byte frame, whose
\* destination, ethertype and two payload bytes are as before
C26_Witness ==
  /\ pkt_call.op = "set_source" /\ Len(pkt_call.pre) = 16
  /\ pkt_call.arg = <<40, 239, 249, 95, 142, 43>> /\ pkt_call.pre[7] # 40
  /\ eth_view.bytes[7] = 40 /\ eth_view.bytes[13] = pkt_call.pre[13]
  /\ payload(eth_view.bytes) = payload(pkt_call.pre) /\ Len(payload(eth_view.bytes)) = 2

\* C27: a transmit or read that fails with EINTR is issued again, and
\* nothing is returned to the caller by that; the result a send_to or a
\* next() returns after its transmit or read was issued is success or an
\* error other than EINTR; and a call that has reached its transmit or read
\* returns, once a transmit or read is no longer interrupted.
C27_InterruptedSyscallRetried ==
  /\ [](\A h \in Halves :
         /\ (call[IOChan][h].issued /\ pc[IOChan][h] = "idle") =>
              /\ res[IOChan][h].kind \in {"Ok", "Err", "panic"}
              /\ res[IOChan][h].kind = "Err" => res[IOChan][h].err # "EINTR"
         /\ call[IOChan][h].interrupts > 0 =>
              (pc[IOChan][h] = "io" /\ res[IOChan][h] = NoIO))
  /\ [][\A h \in Halves :
          (pc[IOChan][h] = "io" /\ pc'[IOChan][h] = "io" /\ call'[IOChan][h] # call[IOChan][h]
             /\ call[IOChan][h].arrived = call'[IOChan][h].arrived)
            => call'[IOChan][h].interrupts = call[IOChan][h].interrupts + 1
     ]_vars
  /\ \A h \in Halves : (pc[IOChan][h] = "io") ~> (pc[IOChan][h] = "idle")

\* C27 witness: the read of a next() has been interrupted twice and is
\* issued again, while the sender has returned the error of its transmit
C27_Witness ==
  /\ pc[IOChan]["rx"] = "io" /\ call[IOChan]["rx"].interrupts = 2
  /\ res[IOChan]["rx"] = NoIO
  /\ call[IOChan]["tx"].issued /\ res[IOChan]["tx"].kind = "Err"
  /\ res[IOChan]["tx"].err = "ENETDOWN"

\* C28: on a channel opened without a write timeout no send_to returns
\* timed-out, and on one opened without a read timeout no next() does: the
\* wait of such a call ends with the descriptor ready or with an OS error.
C28_NoTimeoutNeverTimesOut ==
  \A c \in Chans :
    /\ ~opencall[c].config.write_timeout.some =>
         /\ res[c]["tx"].kind # "TimedOut"
         /\ call[c]["tx"].wait \in {"none", "ready", "error"}
    /\ ~opencall[c].config.read_timeout.some =>
         /\ res[c]["rx"].kind # "TimedOut"
         /\ call[c]["rx"].wait \in {"none", "ready", "error"}

\* C28 witness: on a channel without timeouts the receiver waits with
\* nothing queued, and the sender's wait on a socket that is not writable
\* has ended with an OS error
C28_Witness ==
  \E c \in Chans :
    /\ ~opencall[c].config.write_timeout.some /\ ~opencall[c].config.read_timeout.some
    /\ pc[c]["rx"] = "wait" /\ backlog[c] = <<>>
    /\ ~writable[c] /\ call[c]["tx"].wait = "error" /\ res[c]["tx"].err = "ENOMEM"

\* C29: what a send_to transmits is decided by the frame and by the
\* channel alone: the bytes the socket accepted are the bytes of the frame
\* given, and the address is the index, the hardware address and the
\* protocol of the interface the channel was opened on, whatever the dst
\* argument and the write_buffer_size are; the write buffer is never
\* written. Two calls that differ only in dst or in write_buffer_size
\* therefore issue the same transmit.
C29_TransmitIgnoresDst ==
  \A c \in Chans :
    /\ sent[c] # NoSent =>
         /\ sent[c].sll_ifindex = opencall[c].network_interface.index
         /\ sent[c].sll_addr = opencall[c].network_interface.mac
         /\ sent[c].sll_protocol = 768
    /\ res[c]["tx"].kind = "Ok" => sent[c].bytes = call[c]["tx"].packet
    /\ chanres[c].kind = "Ok" =>
         write_buffer[c] \in {<<>>, Zeros(opencall[c].config.write_buffer_size)}

\* C29 witness: a 15-byte frame given with another interface as dst, on a
\* channel with an empty write buffer, went out whole to the channel's
\* interface
C29_Witness ==
  \E c \in Chans :
    /\ res[c]["tx"].kind = "Ok"
    /\ call[c]["tx"].dst = [index |-> 9, mac |-> NoMac]
    /\ opencall[c].config.write_buffer_size = 0
    /\ opencall[c].network_interface.index = 2
    /\ sent[c] = [bytes |-> Frame(15, 4), sll_ifindex |-> 2, sll_addr |-> Mac1,
                  sll_protocol |-> 768]

\* C30: a variant obtained by decoding a 16-bit code is never an Unknown
\* that carries a code with a name (1 for Hardware; 0x0800, 0x0806, 0x86DD
\* for Protocol; 1, 2 for Operation), and decoding its encoding gives the
\* variant back. An Unknown(c) built by hand encodes to c; when c has a
\* name, decoding that gives the named variant and not Unknown(c), and when
\* c has none it gives Unknown(c) back.
C30_DecodedIsCanonical ==
  LET named(enum) == CASE enum = "Protocol" -> {2048, 2054, 34525}
                       [] enum = "Hardware" -> {1}
                       [] enum = "Operation" -> {1, 2}
      decode(enum, code) == CASE enum = "Protocol" -> Protocol_from(code)
                              [] enum = "Hardware" -> Hardware_from(code)
                              [] enum = "Operation" -> Operation_from(code)
  IN /\ arp_call.op \in {"Protocol", "Hardware", "Operation"} =>
          /\ arp_call.variant.name = "Unknown" => arp_call.variant.other \notin named(arp_call.op)
          /\ arp_call.variant.name # "Unknown" => arp_call.arg[1] \in named(arp_call.op)
          /\ decode(arp_call.op, arp_call.code) = arp_call.variant
     /\ arp_call.op = "Unknown" =>
          /\ arp_call.code = arp_call.arg[1]
          /\ arp_call.arg[1] \in named(arp_call.res) =>
               (arp_call.variant.name # "Unknown" /\ arp_call.variant # Unknown(arp_call.arg[1]))
          /\ arp_call.arg[1] \notin named(arp_call.res) =>
               arp_call.variant = Unknown(arp_call.arg[1])

\* C30 witness: Unknown(0x0806) of Protocol, built by hand, came back as Arp
C30_Witness ==
  /\ arp_call.op = "Unknown" /\ arp_call.res = "Protocol"
  /\ arp_call.arg = <<2054>> /\ arp_call.code = 2054
  /\ arp_call.variant = Variant("Arp")

====
